---- MODULE Spec2Model ----
(***************************************************************************)
(* A model of the text-editing command engine of shikicode: the tab        *)
(* plugin (indent, outdent), the closing-pair plugin and the comment       *)
(* plugin, together with the adapter that applies the computed Action to   *)
(* the text area.  A buffer is a sequence of one-character strings and     *)
(* offsets are 0-based, as in the source.                                  *)
(***************************************************************************)
EXTENDS Integers, Sequences, FiniteSets, TLC

VARIABLES
    value,           \* input.value
    selectionStart,  \* input.selectionStart
    selectionEnd,    \* input.selectionEnd
    options,         \* EditorOptions: tabSize, insertSpaces, language
    rule,            \* CommentRule of the active language
    history,         \* the handler invocations so far, most recent first
    steps,           \* number of key presses handled
    tabStops,        \* the last call of floorTab or ceilTab, or <<>>
    editor_options,  \* create: theme and language of editor_options
    loaded,          \* highlighter: the loaded themes and languages
    calls,           \* the calls of editor.updateOptions so far, in call order
    microtasks,      \* the calls whose await has resolved, first to resume first
    applied          \* the calls that reached the original updateOptions, in order

vars == <<value, selectionStart, selectionEnd, options, rule, history, steps,
          tabStops, editor_options, loaded, calls, microtasks, applied>>

----
(* Bounds of the model *)

MaxLen == 3
MaxSteps == 2
MaxPairLen == 2
MaxWidth == 40
MaxTabSize == 9
MaxCalls == 3

----
(* JavaScript strings *)

Undefined == "undefined"

Min(a, b) == IF a < b THEN a ELSE b

Max(a, b) == IF a > b THEN a ELSE b

\* text[index]
At(text, index) ==
    IF index >= 0 /\ index < Len(text) THEN text[index + 1] ELSE Undefined

\* String.prototype.slice(start, end)
slice(text, start, end) ==
    LET n == Len(text)
        lo == IF start < 0 THEN Max(n + start, 0) ELSE Min(start, n)
        hi == IF end < 0 THEN Max(n + end, 0) ELSE Min(end, n)
    IN  IF lo >= hi THEN <<>> ELSE SubSeq(text, lo + 1, hi)

\* String.prototype.repeat(count), count >= 0
repeat(ch, count) == [i \in 1..count |-> ch]

\* String.prototype.startsWith(prefix)
startsWith(text, prefix) ==
    Len(prefix) <= Len(text) /\ SubSeq(text, 1, Len(prefix)) = prefix

\* The characters String.prototype.trimStart removes
WhiteSpace == {" ", "\t", "\n", "\r"}

\* The LineTerminator characters after which /^/m matches
LineTerminator == {"\n", "\r"}

Range(f) == {f[i] : i \in DOMAIN f}

Texts(alphabet, n) == UNION {[1..k -> alphabet] : k \in 0..n}

----
(* Visual-width arithmetic *)

\* ~a on two's complement integers
BitNot(a) == -a - 1

\* a & b on two's complement integers
RECURSIVE BitAnd(_, _)
BitAnd(a, b) ==
    IF a = 0 \/ b = 0 THEN 0
    ELSE IF a = -1 THEN b
    ELSE IF b = -1 THEN a
    ELSE 2 * BitAnd(a \div 2, b \div 2) + (a % 2) * (b % 2)

\* floorTab with the mask of tabSize 4 on the path of tabSize 8
floorTab_mask4(width, tabSize) ==
    CASE tabSize = 2 -> BitAnd(width, BitNot(1))
      [] tabSize = 4 -> BitAnd(width, BitNot(3))
      [] tabSize = 8 -> BitAnd(width, BitNot(3))
      [] OTHER -> (width \div tabSize) * tabSize

\* the operands of & are 32-bit integers, as every integer of this module is;
\* \div rounds down as Math.floor does
floorTab(width, tabSize) ==
    CASE tabSize = 2 -> BitAnd(width, BitNot(1))
      [] tabSize = 4 -> BitAnd(width, BitNot(3))
      [] tabSize = 8 -> BitAnd(width, BitNot(7))
      [] OTHER -> (width \div tabSize) * tabSize

ceilTab(width, tabSize) ==
    CASE tabSize = 2 -> BitAnd(width + 1, BitNot(1))
      [] tabSize = 4 -> BitAnd(width + 3, BitNot(3))
      [] tabSize = 8 -> BitAnd(width + 7, BitNot(7))
      [] OTHER -> (-((-width) \div tabSize)) * tabSize

\* the loop of visibleWidthFromLeft
RECURSIVE widthFrom(_, _, _, _, _)
widthFrom(content, i, offset, tabSize, width) ==
    IF i >= offset THEN width
    ELSE widthFrom(content, i + 1, offset, tabSize,
                   IF At(content, i) = "\t" THEN ceilTab(width + 1, tabSize) ELSE width + 1)

\* the default of the parameter `left`: the start of the line of offset
RECURSIVE leftOf(_, _)
leftOf(content, left) ==
    IF left > 0 /\ At(content, left - 1) # "\n" THEN leftOf(content, left - 1) ELSE left

\* visibleWidthFromLeft(content, offset, tabSize, left)
visibleWidthFromLeft(content, offset, tabSize, left) ==
    <<widthFrom(content, left, offset, tabSize, 0), offset - left>>

\* visibleWidthFromLeft(content, offset, tabSize), left omitted
visibleWidthFromLineStart(content, offset, tabSize) ==
    visibleWidthFromLeft(content, offset, tabSize, leftOf(content, offset))

RECURSIVE leadingSpace(_, _, _, _)
leadingSpace(line, tabSize, width, i) ==
    IF i < Len(line) /\ At(line, i) = " " THEN leadingSpace(line, tabSize, width + 1, i + 1)
    ELSE IF i < Len(line) /\ At(line, i) = "\t"
         THEN leadingSpace(line, tabSize, ceilTab(width + 1, tabSize), i + 1)
    ELSE <<width, i>>

visibleWidthLeadingSpace(line, tabSize) == leadingSpace(line, tabSize, 0, 0)

----
(* Line and block boundaries *)

RECURSIVE getLineStart(_, _)
getLineStart(text, index) ==
    IF index > 0 /\ At(text, index - 1) # "\n" THEN getLineStart(text, index - 1) ELSE index

RECURSIVE getLineEnd(_, _)
getLineEnd(text, index) ==
    IF index < Len(text) /\ At(text, index) # "\n" /\ At(text, index) # "\r"
    THEN getLineEnd(text, index + 1)
    ELSE index

\* the while loop of getBlockLineEnd
RECURSIVE skipTerminators(_, _)
skipTerminators(text, index) ==
    IF index > 0 /\ (index = Len(text) \/ At(text, index) = "\n" \/ At(text, index) = "\r")
    THEN skipTerminators(text, index - 1)
    ELSE index

\* getBlockLineEnd without the step back from the start of a line
getBlockLineEnd_noStepBack(text, index) ==
    getLineEnd(text, skipTerminators(text, index))

getBlockLineEnd(text, index) ==
    getLineEnd(text, skipTerminators(text, IF At(text, index - 1) = "\n" THEN index - 1 ELSE index))

bothEndsSelected(text, start, end) ==
    LET is_start == start = 0 \/ At(text, start - 1) = "\n"
        is_end == end = Len(text) \/ At(text, end) = "\n" \/ At(text, end) = "\r"
    IN  start # end /\ is_start /\ is_end

----
(* Actions returned by the engine: patch and select are each absent (<<>>) *)
(* or present (a one-element sequence)                                     *)

empty_action == [patch |-> <<>>, select |-> <<>>]

PatchAction(v, start, end, mode) == [value |-> v, start |-> start, end |-> end, mode |-> mode]

SelectAction(start, end) == [start |-> start, end |-> end]

----
(* The text area and the adapter *)

\* an argument of setSelectionRange: converted to the IDL type unsigned long
\* (a negative number wraps to one above 2^31) and then treated as the end
\* of the text when it is greater than the length of the text
ToOffset(n, length) == IF n < 0 \/ n > length THEN length ELSE n

\* HTMLTextAreaElement.setSelectionRange(start, end)
setSelectionRange(input, start, end) ==
    LET e == ToOffset(end, Len(input.value))
        s == Min(ToOffset(start, Len(input.value)), e)
    IN  [input EXCEPT !.selectionStart = s, !.selectionEnd = e]

\* document.execCommand("insertText", false, text): the selection is
\* replaced by text and the caret is placed behind it
insertText(input, text) ==
    [value |-> slice(input.value, 0, input.selectionStart) \o text
               \o slice(input.value, input.selectionEnd, Len(input.value)),
     selectionStart |-> input.selectionStart + Len(text),
     selectionEnd |-> input.selectionStart + Len(text)]

setRangeText(input, replacement, start, end, selectionMode) ==
    LET replaced == insertText(setSelectionRange(input, start, end), replacement)
    IN  CASE selectionMode = "start" -> setSelectionRange(replaced, start, start)
          [] selectionMode = "end" ->
                 setSelectionRange(replaced, start + Len(replacement), start + Len(replacement))
          [] OTHER -> setSelectionRange(replaced, start, start + Len(replacement))

\* if (patch) setRangeText(...)
applyPatch(input, action) ==
    IF action.patch = <<>> THEN input
    ELSE LET patch == action.patch[1]
         IN  setRangeText(input, patch.value, patch.start, patch.end, patch.mode)

\* the adapter with the two steps exchanged: select first, then patch
applyAction_selectFirst(input, action) ==
    LET selected == IF action.select = <<>> THEN input
                    ELSE setSelectionRange(input, action.select[1].start, action.select[1].end)
    IN  IF action.patch = <<>> THEN selected
        ELSE setRangeText(selected, action.patch[1].value, action.patch[1].start,
                          action.patch[1].end, action.patch[1].mode)

\* if (patch) setRangeText(...); if (select) input.setSelectionRange(...)
applyAction(input, action) ==
    LET patched == applyPatch(input, action)
    IN  IF action.select = <<>> THEN patched
        ELSE setSelectionRange(patched, action.select[1].start, action.select[1].end)

----
(* The tab plugin: indentText and outdentText *)

\* str.replaceAll(/^[ \t]*/gm, callback): the length of the run of spaces
\* and tabs that starts at offset
RECURSIVE leadingRun(_, _)
leadingRun(str, offset) ==
    IF At(str, offset) = " " \/ At(str, offset) = "\t" THEN 1 + leadingRun(str, offset + 1) ELSE 0

\* the callback of replaceAll in blockIndentText
indentLeading(leading, offset, str, block_end, tabSize, insertSpaces) ==
    IF At(str, offset) = "\n" \/ At(str, offset) = "\r" \/ offset = block_end THEN leading
    ELSE LET tab_width == ceilTab(visibleWidthFromLeft(leading, Len(leading), tabSize, 0)[1] + 1, tabSize)
         IN  IF insertSpaces THEN repeat(" ", tab_width) ELSE repeat("\t", tab_width \div tabSize)

\* the callback of replaceAll in outdentText when the width is floored
\* without stepping below the current tab stop
outdentLeading_sameStop(leading, tabSize, insertSpaces) ==
    LET tab_width == floorTab(visibleWidthFromLeft(leading, Len(leading), tabSize, 0)[1], tabSize)
    IN  IF tab_width <= 0 THEN <<>>
        ELSE IF insertSpaces THEN repeat(" ", tab_width) ELSE repeat("\t", tab_width \div tabSize)

\* the callback of replaceAll in outdentText
outdentLeading(leading, tabSize, insertSpaces) ==
    LET tab_width == floorTab(visibleWidthFromLeft(leading, Len(leading), tabSize, 0)[1] - 1, tabSize)
    IN  IF tab_width <= 0 THEN <<>>
        ELSE IF insertSpaces THEN repeat(" ", tab_width) ELSE repeat("\t", tab_width \div tabSize)

\* block.replaceAll(/^[ \t]*/gm, callback) from offset pos on: one match at
\* the start of the string and one after every line terminator
RECURSIVE replaceAllLeading(_, _, _, _, _, _)
replaceAllLeading(str, pos, outdent, block_end, tabSize, insertSpaces) ==
    IF pos > Len(str) THEN <<>>
    ELSE IF pos = 0 \/ At(str, pos - 1) \in LineTerminator
    THEN LET run == leadingRun(str, pos)
             leading == slice(str, pos, pos + run)
             replaced == IF outdent THEN outdentLeading(leading, tabSize, insertSpaces)
                         ELSE indentLeading(leading, pos, str, block_end, tabSize, insertSpaces)
         IN  replaced \o
             (IF pos + run < Len(str)
              THEN <<At(str, pos + run)>> \o
                   replaceAllLeading(str, pos + run + 1, outdent, block_end, tabSize, insertSpaces)
              ELSE <<>>)
    ELSE IF pos < Len(str)
    THEN <<At(str, pos)>> \o replaceAllLeading(str, pos + 1, outdent, block_end, tabSize, insertSpaces)
    ELSE <<>>

\* "restore selection" that never moves the selection start back to the end of
\* a shorter leading whitespace
restoreSelection_noClamp(input, block_start, block_end, block, replacement, tabSize) ==
    LET v == input.value
        s == input.selectionStart
        e == input.selectionEnd
        start ==
            IF s # block_start
            THEN LET line_start == block_start
                     cursor_offset == s - line_start
                     line == slice(v, line_start, s)
                     old_leading_offset == visibleWidthLeadingSpace(line, tabSize)[2]
                     max_leading_offset == visibleWidthLeadingSpace(replacement, tabSize)[2]
                 IN  IF cursor_offset > old_leading_offset
                     THEN s + max_leading_offset - old_leading_offset
                     ELSE s
            ELSE s
        end0 == e + Len(replacement) - Len(block)
        end ==
            IF e < block_end
            THEN LET line_start == getLineStart(v, e)
                     cursor_offset == e - line_start
                     line == slice(v, line_start, e)
                     old_leading_offset == visibleWidthLeadingSpace(line, tabSize)[2]
                     new_bottom_line_offset == getLineStart(replacement, Len(replacement))
                     new_bottom_line == slice(replacement, new_bottom_line_offset, Len(replacement))
                     max_leading_offset == visibleWidthLeadingSpace(new_bottom_line, tabSize)[2]
                 IN  IF cursor_offset <= old_leading_offset
                     THEN block_start + new_bottom_line_offset + cursor_offset
                          + (IF cursor_offset > max_leading_offset
                             THEN max_leading_offset - old_leading_offset ELSE 0)
                     ELSE end0
            ELSE end0
    IN  SelectAction(start, end)

\* "restore selection" of blockIndentText and of outdentText (the same code)
restoreSelection(input, block_start, block_end, block, replacement, tabSize) ==
    LET v == input.value
        s == input.selectionStart
        e == input.selectionEnd
        start ==
            IF s # block_start
            THEN LET line_start == block_start
                     cursor_offset == s - line_start
                     line == slice(v, line_start, s)
                     old_leading_offset == visibleWidthLeadingSpace(line, tabSize)[2]
                     max_leading_offset == visibleWidthLeadingSpace(replacement, tabSize)[2]
                 IN  IF cursor_offset > old_leading_offset
                     THEN s + max_leading_offset - old_leading_offset
                     ELSE IF cursor_offset > max_leading_offset
                     THEN line_start + max_leading_offset
                     ELSE s
            ELSE s
        end0 == e + Len(replacement) - Len(block)
        end ==
            IF e < block_end
            THEN LET line_start == getLineStart(v, e)
                     cursor_offset == e - line_start
                     line == slice(v, line_start, e)
                     old_leading_offset == visibleWidthLeadingSpace(line, tabSize)[2]
                     new_bottom_line_offset == getLineStart(replacement, Len(replacement))
                     new_bottom_line == slice(replacement, new_bottom_line_offset, Len(replacement))
                     max_leading_offset == visibleWidthLeadingSpace(new_bottom_line, tabSize)[2]
                 IN  IF cursor_offset <= old_leading_offset
                     THEN block_start + new_bottom_line_offset + cursor_offset
                          + (IF cursor_offset > max_leading_offset
                             THEN max_leading_offset - old_leading_offset ELSE 0)
                     ELSE end0
            ELSE end0
    IN  SelectAction(start, end)

\* simpleIndentText that rounds the width at the caret up without stepping
\* past a tab stop the caret is on
simpleIndentText_sameStop(input, opts) ==
    IF ~opts.insertSpaces
    THEN [patch |-> <<PatchAction(<<"\t">>, input.selectionStart, input.selectionEnd, "end")>>,
          select |-> <<>>]
    ELSE LET width_from_left ==
                 visibleWidthFromLineStart(input.value, input.selectionStart, opts.tabSize)[1]
             indent == repeat(" ", ceilTab(width_from_left, opts.tabSize) - width_from_left)
         IN  [patch |-> <<PatchAction(indent, input.selectionStart, input.selectionEnd, "end")>>,
              select |-> <<>>]

simpleIndentText(input, opts) ==
    IF ~opts.insertSpaces
    THEN [patch |-> <<PatchAction(<<"\t">>, input.selectionStart, input.selectionEnd, "end")>>,
          select |-> <<>>]
    ELSE LET width_from_left ==
                 visibleWidthFromLineStart(input.value, input.selectionStart, opts.tabSize)[1]
             indent == repeat(" ", ceilTab(width_from_left + 1, opts.tabSize) - width_from_left)
         IN  [patch |-> <<PatchAction(indent, input.selectionStart, input.selectionEnd, "end")>>,
              select |-> <<>>]

blockIndentText(input, opts) ==
    LET block_start == getLineStart(input.value, input.selectionStart)
        block_end == getBlockLineEnd(input.value, input.selectionEnd)
        block == slice(input.value, block_start, block_end)
        replacement == replaceAllLeading(block, 0, FALSE, block_end, opts.tabSize, opts.insertSpaces)
    IN  [patch |-> <<PatchAction(replacement, block_start, block_end, "end")>>,
         select |-> <<restoreSelection(input, block_start, block_end, block, replacement,
                                       opts.tabSize)>>]

indentText(input, opts) ==
    IF /\ input.selectionStart # input.selectionEnd
       /\ \/ bothEndsSelected(input.value, input.selectionStart, input.selectionEnd)
          \/ "\n" \in Range(slice(input.value, input.selectionStart, input.selectionEnd))
    THEN blockIndentText(input, opts)
    ELSE simpleIndentText(input, opts)

\* outdentText without the test for an unchanged block
outdentText_alwaysPatch(input, opts) ==
    LET block_start == getLineStart(input.value, input.selectionStart)
        block_end == getBlockLineEnd(input.value,
                                     Max(input.selectionEnd, input.selectionStart + 1))
        block == slice(input.value, block_start, block_end)
        replacement == replaceAllLeading(block, 0, TRUE, block_end, opts.tabSize, opts.insertSpaces)
    IN  [patch |-> <<PatchAction(replacement, block_start, block_end, "end")>>,
         select |-> <<restoreSelection(input, block_start, block_end, block, replacement,
                                       opts.tabSize)>>]

outdentText(input, opts) ==
    LET block_start == getLineStart(input.value, input.selectionStart)
        block_end == getBlockLineEnd(input.value,
                                     Max(input.selectionEnd, input.selectionStart + 1))
        block == slice(input.value, block_start, block_end)
        replacement == replaceAllLeading(block, 0, TRUE, block_end, opts.tabSize, opts.insertSpaces)
    IN  IF replacement = block THEN empty_action
        ELSE [patch |-> <<PatchAction(replacement, block_start, block_end, "end")>>,
              select |-> <<restoreSelection(input, block_start, block_end, block, replacement,
                                            opts.tabSize)>>]

\* the first switch of enter without its cases
opensBracket_never(ch) == FALSE

\* the first switch of enter: the character before the caret opens a bracket
opensBracket(ch) == ch \in {"(", "[", "{"}

\* the second switch of enter without its cases
betweenBrackets_never(pair) == FALSE

\* the second switch of enter: the caret is between an empty pair of brackets
betweenBrackets(pair) == pair \in {<<"{", "}">>, <<"[", "]">>, <<"(", ")">>}

\* the indentation enter writes: spaces, or tabs, of the given width
indentation(width, opts) ==
    IF opts.insertSpaces THEN repeat(" ", width) ELSE repeat("\t", width \div opts.tabSize)

enter(input, opts) ==
    IF input.selectionStart # input.selectionEnd THEN empty_action
    ELSE LET v == input.value
             s == input.selectionStart
             line_start == getLineStart(v, s)
             line == slice(v, line_start, s)
             leading_space == floorTab(visibleWidthLeadingSpace(line, opts.tabSize)[1], opts.tabSize)
             indent_space == leading_space + (IF opensBracket(At(v, s - 1)) THEN opts.tabSize ELSE 0)
             first == <<"\n">> \o indentation(indent_space, opts)
         IN  IF line_start = s THEN empty_action
             ELSE IF betweenBrackets(slice(v, s - 1, s + 1))
             THEN [patch |-> <<PatchAction(first \o <<"\n">> \o indentation(leading_space, opts),
                                           s, s, "end")>>,
                   select |-> <<SelectAction(s + Len(first), s + Len(first))>>]
             ELSE [patch |-> <<PatchAction(first, s, s, "end")>>, select |-> <<>>]

\* the loop of backspace over the characters i .. stop - 1: whether it ran
\* to its end, and last_tab_stop
RECURSIVE scanTabStops(_, _, _, _, _, _)
scanTabStops(v, i, stop, tabSize, width, last_tab_stop) ==
    IF i >= stop THEN [completed |-> TRUE, last_tab_stop |-> last_tab_stop]
    ELSE IF At(v, i) = " "
    THEN scanTabStops(v, i + 1, stop, tabSize, width + 1,
                      IF (width + 1) % tabSize = 0 THEN i ELSE last_tab_stop)
    ELSE IF At(v, i) = "\t"
    THEN scanTabStops(v, i + 1, stop, tabSize, ceilTab(width + 1, tabSize), i)
    ELSE [completed |-> FALSE, last_tab_stop |-> last_tab_stop]

\* backspace that does not give up at a character that is neither a space
\* nor a tab
backspace_anyLine(input, opts) ==
    LET v == input.value
        s == input.selectionStart
        line_start == getLineStart(v, s)
        scan == scanTabStops(v, line_start, s - 1, opts.tabSize, 0, line_start)
    IN  IF s # input.selectionEnd THEN empty_action
        ELSE IF At(v, s - 1) # " " THEN empty_action
        ELSE [patch |-> <<>>, select |-> <<SelectAction(scan.last_tab_stop, s)>>]

backspace(input, opts) ==
    LET v == input.value
        s == input.selectionStart
        line_start == getLineStart(v, s)
        scan == scanTabStops(v, line_start, s - 1, opts.tabSize, 0, line_start)
    IN  IF s # input.selectionEnd THEN empty_action
        ELSE IF At(v, s - 1) # " " THEN empty_action
        ELSE IF ~scan.completed THEN empty_action
        ELSE [patch |-> <<>>, select |-> <<SelectAction(scan.last_tab_stop, s)>>]

----
(* The closing-pair plugin *)

\* should_auto_close with the whitespace only
should_auto_close_blank == {" ", "\t", "\n"}

should_auto_close == {" ", "\t", "\n", ".", ",", ";", ")", "]", "}", ">", "="}

pairs_parentheses == <<"(", ")">>

pairs_brackets == <<"[", "]">>

pairs_braces == <<"{", "}">>

pairs_quotes == <<"\"", "\"">>

pairs_single_quotes == <<"'", "'">>

\* the backtick character is written "backtick"
pairs_backticks == <<"backtick", "backtick">>

c_lang_pairs ==
    <<pairs_parentheses, pairs_brackets, pairs_braces, pairs_quotes, pairs_single_quotes>>

c_lang_pairs_with_backticks ==
    <<pairs_parentheses, pairs_brackets, pairs_braces, pairs_quotes, pairs_single_quotes,
      pairs_backticks>>

default_pairs ==
    <<[language |-> "c", pairs |-> c_lang_pairs],
      [language |-> "cpp", pairs |-> c_lang_pairs],
      [language |-> "css", pairs |-> c_lang_pairs],
      [language |-> "csharp", pairs |-> c_lang_pairs],
      [language |-> "dart", pairs |-> c_lang_pairs_with_backticks],
      [language |-> "go", pairs |-> c_lang_pairs_with_backticks],
      [language |-> "java", pairs |-> c_lang_pairs],
      [language |-> "json", pairs |-> <<pairs_brackets, pairs_braces, pairs_quotes>>],
      [language |-> "javascript", pairs |-> c_lang_pairs_with_backticks],
      [language |-> "typescript", pairs |-> c_lang_pairs_with_backticks],
      [language |-> "jsx", pairs |-> c_lang_pairs_with_backticks],
      [language |-> "tsx", pairs |-> c_lang_pairs_with_backticks],
      [language |-> "php", pairs |-> c_lang_pairs],
      [language |-> "python", pairs |-> c_lang_pairs],
      [language |-> "rust",
       pairs |-> <<pairs_parentheses, pairs_brackets, pairs_braces, pairs_quotes>>],
      [language |-> "ruby", pairs |-> c_lang_pairs_with_backticks],
      [language |-> "sql", pairs |-> c_lang_pairs_with_backticks]>>

\* rules.has(language) and rules.get(language).  Map.set keeps the last
\* entry of a key
rules_has(language) == \E i \in DOMAIN default_pairs : default_pairs[i].language = language

rules_get(language) ==
    default_pairs[CHOOSE i \in DOMAIN default_pairs :
                      /\ default_pairs[i].language = language
                      /\ \A j \in DOMAIN default_pairs :
                             default_pairs[j].language = language => j <= i].pairs

auto_closing_pairs_open_has(pairs, key) == \E i \in DOMAIN pairs : pairs[i][1] = key

auto_closing_pairs_open_get(pairs, key) ==
    pairs[CHOOSE i \in DOMAIN pairs :
              /\ pairs[i][1] = key
              /\ \A j \in DOMAIN pairs : pairs[j][1] = key => j <= i][2]

auto_closing_pairs_close_has(pairs, key) == \E i \in DOMAIN pairs : pairs[i][2] = key

\* the set of the literals open + close
auto_closing_pairs(pairs) == {<<pairs[i][1], pairs[i][2]>> : i \in DOMAIN pairs}

\* isBackspace(e) for the keys of the model, which carry no modifier
isBackspace(key) == key = "Backspace"

\* "skip right pairs" with a caret that is not between a pair literal
skipRightPairs_never(input, config) == [input |-> input, prevented |-> FALSE]

\* the branch of onKeydown for Backspace when only the open token before the
\* caret is selected
deletePairs_openOnly(input, config) ==
    LET s == input.selectionStart
    IN  IF s # input.selectionEnd THEN [input |-> input, prevented |-> FALSE]
        ELSE IF slice(input.value, s - 1, s + 1) \in auto_closing_pairs(config)
        THEN [input |-> setSelectionRange(input, s - 1, s), prevented |-> FALSE]
        ELSE [input |-> input, prevented |-> FALSE]

\* the branch of onKeydown for Backspace
deletePairs(input, config) ==
    LET s == input.selectionStart
    IN  IF s # input.selectionEnd THEN [input |-> input, prevented |-> FALSE]
        ELSE IF slice(input.value, s - 1, s + 1) \in auto_closing_pairs(config)
        THEN [input |-> setSelectionRange(input, s - 1, s + 1), prevented |-> FALSE]
        ELSE [input |-> input, prevented |-> FALSE]

\* "add pairs surrounding the selection" without the final setSelectionRange:
\* the selection setRangeText leaves covers the delimiters too
surroundSelection_keepRange(input, key, config) ==
    LET s == input.selectionStart
        e == input.selectionEnd
        text == slice(input.value, s, e)
        left == key
        right == auto_closing_pairs_open_get(config, left)
        wrapped == setRangeText(input, <<left>> \o text \o <<right>>, s, e, "select")
    IN  [input |-> wrapped, prevented |-> TRUE]

\* "add pairs surrounding the selection"
surroundSelection(input, key, config) ==
    LET s == input.selectionStart
        e == input.selectionEnd
        text == slice(input.value, s, e)
        left == key
        right == auto_closing_pairs_open_get(config, left)
        wrapped == setRangeText(input, <<left>> \o text \o <<right>>, s, e, "select")
    IN  [input |-> setSelectionRange(wrapped, s + 1, e + 1), prevented |-> TRUE]

\* "add pairs at the cursor"
addPairsAtCursor(input, key, config) ==
    LET s == input.selectionStart
        e == input.selectionEnd
        left == key
        right == auto_closing_pairs_open_get(config, left)
        closed == setRangeText(input, <<left, right>>, s, e, "start")
    IN  [input |-> setSelectionRange(closed, s + 1, e + 1), prevented |-> TRUE]

\* "skip right pairs"
skipRightPairs(input, config) ==
    LET s == input.selectionStart
        e == input.selectionEnd
    IN  IF s = e /\ s > 0 /\ slice(input.value, s - 1, s + 1) \in auto_closing_pairs(config)
        THEN [input |-> setSelectionRange(input, s, e + 1), prevented |-> FALSE]
        ELSE [input |-> input, prevented |-> FALSE]

\* hookClosingPairs, onKeydown: the text area the handler leaves and whether
\* it called e.preventDefault()
pairsOnKeydown(input, key, language) ==
    LET v == input.value
        s == input.selectionStart
        e == input.selectionEnd
    IN  IF ~rules_has(language) THEN [input |-> input, prevented |-> FALSE]
        ELSE LET config == rules_get(language)
             IN  IF isBackspace(key) THEN deletePairs(input, config)
                 ELSE IF /\ ~auto_closing_pairs_open_has(config, key)
                         /\ ~auto_closing_pairs_close_has(config, key)
                 THEN [input |-> input, prevented |-> FALSE]
                 ELSE IF s # e /\ auto_closing_pairs_open_has(config, key)
                 THEN surroundSelection(input, key, config)
                 ELSE IF /\ s = e
                         /\ auto_closing_pairs_open_has(config, key)
                         /\ (At(v, s) = Undefined \/ At(v, s) \in should_auto_close)
                 THEN addPairsAtCursor(input, key, config)
                 ELSE skipRightPairs(input, config)

----
(* The comment plugin *)

\* a trimStart that removes nothing
trimStart_none(text) == text

\* String.prototype.trimStart
RECURSIVE trimStart(_)
trimStart(text) ==
    IF text # <<>> /\ Head(text) \in WhiteSpace THEN trimStart(Tail(text)) ELSE text

\* text.split("\n")
RECURSIVE split(_)
split(text) ==
    IF \E i \in 1..Len(text) : text[i] = "\n"
    THEN LET i == CHOOSE i \in 1..Len(text) :
                      text[i] = "\n" /\ \A j \in 1..(i - 1) : text[j] # "\n"
         IN  <<SubSeq(text, 1, i - 1)>> \o split(SubSeq(text, i + 1, Len(text)))
    ELSE <<text>>

\* lines.join("\n")
RECURSIVE join(_)
join(lines) ==
    IF Len(lines) = 0 THEN <<>>
    ELSE IF Len(lines) = 1 THEN lines[1]
    ELSE lines[1] \o <<"\n">> \o join(Tail(lines))

\* the length removed from a commented line when the space is left behind
commentLength_tokenOnly(trimmed, comment, insertSpace) == Len(comment)

\* the length removed from a commented line: the token and, with insertSpace,
\* a space that follows it
commentLength(trimmed, comment, insertSpace) ==
    LET afterComment == slice(trimmed, Len(comment), Len(trimmed))
        hasSpaceAfterComment == startsWith(afterComment, <<" ">>)
    IN  Len(comment) + (IF hasSpaceAfterComment /\ insertSpace THEN 1 ELSE 0)

\* lines.map of the branch "Remove comments from all lines"
uncommentLine(line, comment, insertSpace) ==
    LET trimmed == trimStart(line)
        leading_space == Len(line) - Len(trimmed)
    IN  IF Len(trimmed) = 0 THEN line
        ELSE slice(line, 0, leading_space)
             \o slice(trimmed, commentLength(trimmed, comment, insertSpace), Len(trimmed))

\* "Add comments to all lines" that leaves a line alone when it already
\* starts with the token
commentLine_skipCommented(line, comment, afterCommentStr) ==
    LET trimmed == trimStart(line)
        leading_space == Len(line) - Len(trimmed)
    IN  IF Len(trimmed) = 0 \/ startsWith(trimmed, comment) THEN line
        ELSE slice(line, 0, leading_space) \o comment \o afterCommentStr \o trimmed

\* lines.map of the branch "Add comments to all lines"
commentLine(line, comment, afterCommentStr) ==
    LET trimmed == trimStart(line)
        leading_space == Len(line) - Len(trimmed)
    IN  IF Len(trimmed) = 0 THEN line
        ELSE slice(line, 0, leading_space) \o comment \o afterCommentStr \o trimmed

lineComment(input, comment, insertSpace) ==
    LET v == input.value
        s == input.selectionStart
        e == input.selectionEnd
        afterCommentStr == IF insertSpace THEN <<" ">> ELSE <<>>
    IN  IF s = e
        THEN LET line_start == getLineStart(v, s)
                 line_end == getLineEnd(v, s)
                 line == slice(v, line_start, line_end)
                 trimmed == trimStart(line)
                 leading_space == Len(line) - Len(trimmed)
                 comment_pos == line_start + leading_space
             IN  IF startsWith(trimmed, comment)
                 THEN LET removed == commentLength(trimmed, comment, insertSpace)
                      IN  [patch |-> <<PatchAction(<<>>, comment_pos, comment_pos + removed, "end")>>,
                           select |-> <<SelectAction(
                               s - (IF s > comment_pos + removed THEN removed ELSE 0),
                               e - (IF e > comment_pos + removed THEN removed ELSE 0))>>]
                 ELSE LET added == Len(comment) + Len(afterCommentStr)
                      IN  [patch |-> <<PatchAction(comment \o afterCommentStr,
                                                   comment_pos, comment_pos, "end")>>,
                           select |-> <<SelectAction(
                               s + (IF s >= comment_pos THEN added ELSE 0),
                               e + (IF e >= comment_pos THEN added ELSE 0))>>]
        ELSE LET block_start == getLineStart(v, s)
                 block_end == getLineEnd(v, e)
                 block == slice(v, block_start, block_end)
                 lines == split(block)
                 all_commented ==
                     \A i \in DOMAIN lines :
                         Len(trimStart(lines[i])) = 0 \/ startsWith(trimStart(lines[i]), comment)
                 replacement ==
                     IF all_commented
                     THEN join([i \in DOMAIN lines |-> uncommentLine(lines[i], comment, insertSpace)])
                     ELSE join([i \in DOMAIN lines |-> commentLine(lines[i], comment, afterCommentStr)])
                 length_diff ==
                     IF all_commented THEN Len(block) - Len(replacement)
                     ELSE Len(replacement) - Len(block)
             IN  IF replacement = block THEN empty_action
                 ELSE [patch |-> <<PatchAction(replacement, block_start, block_end, "end")>>,
                       select |-> <<SelectAction(
                           s, e + (IF all_commented THEN -length_diff ELSE length_diff))>>]

blockComment(input, comment, insertSpace) ==
    LET v == input.value
        s == input.selectionStart
        e == input.selectionEnd
        open_comment == comment[1]
        close_comment == comment[2]
        before == slice(v, Max(0, s - Len(open_comment)), s)
        after == slice(v, e, Min(Len(v), e + Len(close_comment)))
        hasSpaceAfterOpen == slice(v, s, s + 1) = <<" ">>
        hasSpaceBeforeClose == slice(v, e - 1, e) = <<" ">>
    IN  IF before = open_comment /\ after = close_comment
        THEN LET adjustedSelectionStart == s + (IF hasSpaceAfterOpen /\ insertSpace THEN 1 ELSE 0)
                 adjustedSelectionEnd == e - (IF hasSpaceBeforeClose /\ insertSpace THEN 1 ELSE 0)
             IN  [patch |-> <<PatchAction(slice(v, adjustedSelectionStart, adjustedSelectionEnd),
                                          s - Len(open_comment), e + Len(close_comment), "select")>>,
                  select |-> <<SelectAction(
                      s - Len(open_comment),
                      adjustedSelectionEnd - adjustedSelectionStart + s - Len(open_comment))>>]
        ELSE LET spaceAfter == IF insertSpace THEN <<" ">> ELSE <<>>
                 spaceBefore == IF insertSpace THEN <<" ">> ELSE <<>>
             IN  [patch |-> <<PatchAction(open_comment \o spaceAfter \o slice(v, s, e)
                                              \o spaceBefore \o close_comment,
                                          s, e, "select")>>,
                  select |-> <<SelectAction(s + Len(open_comment) + Len(spaceAfter),
                                            e + Len(open_comment) + Len(spaceAfter))>>]

\* comments, onKeydown for the key "/" with the control key: the Action of
\* the rule of the active language
toggleComment(input, commentRule) ==
    IF commentRule.lineComment # <<>>
    THEN lineComment(input, commentRule.lineComment, commentRule.insertSpace)
    ELSE IF commentRule.blockComment # <<>>
    THEN blockComment(input, commentRule.blockComment, commentRule.insertSpace)
    ELSE empty_action

----
(* The editor as a state machine: one action per key press *)

Input == [value |-> value, selectionStart |-> selectionStart, selectionEnd |-> selectionEnd]

\* the selections of a text of length n
Selections(n) == {se \in (0..n) \X (0..n) : se[1] <= se[2]}

\* one handler invocation: the key, the text area before it, the Action
\* computed, the text area the handler left, whether it called
\* e.preventDefault(), and the text area after the host's default handling
Invocation(key, input, action, handled, prevented, result) ==
    [key |-> key, input |-> input, action |-> action, handled |-> handled,
     prevented |-> prevented, result |-> result]

\* no call of floorTab, ceilTab or updateOptions was made
NoCalls ==
    /\ tabStops = <<>>
    /\ editor_options = [theme |-> "none", language |-> "text"]
    /\ loaded = [themes |-> {}, langs |-> {}]
    /\ calls = <<>>
    /\ microtasks = <<>>
    /\ applied = <<>>

Record(invocation) ==
    /\ value' = invocation.result.value
    /\ selectionStart' = invocation.result.selectionStart
    /\ selectionEnd' = invocation.result.selectionEnd
    /\ history' = <<invocation>> \o SubSeq(history, 1, Min(Len(history), 1))
    /\ steps' = steps + 1
    /\ UNCHANGED <<options, rule, tabStops, editor_options, loaded, calls, microtasks, applied>>

\* hookTab, case "Tab" without shiftKey
KeydownTab ==
    /\ steps < MaxSteps
    /\ LET action == indentText(Input, options)
           handled == applyAction(Input, action)
       IN  Record(Invocation("Tab", Input, action, handled, TRUE, handled))

\* hookTab, case "Tab" with shiftKey
KeydownShiftTab ==
    /\ steps < MaxSteps
    /\ LET action == outdentText(Input, options)
           handled == applyAction(Input, action)
       IN  Record(Invocation("Shift+Tab", Input, action, handled, TRUE, handled))

\* hookTab, case "Enter": when enter returns neither patch nor select the
\* key is not prevented and the host inserts a line break over the selection
KeydownEnter ==
    /\ steps < MaxSteps
    /\ LET action == enter(Input, options)
           handled == applyAction(Input, action)
           prevented == action.patch # <<>> \/ action.select # <<>>
       IN  Record(Invocation("Enter", Input, action, handled, prevented,
                             IF prevented THEN handled ELSE insertText(handled, <<"\n">>)))

TabAlphabet == {" ", "\t", "\n", "\r", "x"}

TabSizes == {2, 3, 4}

NoRule == [lineComment |-> <<>>, blockComment |-> <<>>, insertSpace |-> TRUE]

InitTab ==
    /\ value \in Texts(TabAlphabet, MaxLen)
    /\ \E se \in Selections(Len(value)) : selectionStart = se[1] /\ selectionEnd = se[2]
    /\ options \in [tabSize : TabSizes, insertSpaces : BOOLEAN, language : {"plaintext"}]
    /\ rule = NoRule
    /\ history = <<>>
    /\ steps = 0
    /\ NoCalls

NextTab == KeydownTab \/ KeydownShiftTab \/ KeydownEnter

SpecTab == InitTab /\ [][NextTab]_vars

\* the host's default handling of a key the handler did not prevent:
\* Backspace deletes the selection or the character before the caret, a
\* character key replaces the selection by the character
hostDefault(input, key) ==
    IF key = "Backspace"
    THEN IF input.selectionStart # input.selectionEnd THEN insertText(input, <<>>)
         ELSE IF input.selectionStart > 0
         THEN insertText([input EXCEPT !.selectionStart = input.selectionStart - 1], <<>>)
         ELSE input
    ELSE insertText(input, <<key>>)

\* hookClosingPairs, onKeydown, followed by the default handling of the key
PairsKeydown(key) ==
    /\ steps < MaxSteps
    /\ LET handled == pairsOnKeydown(Input, key, options.language)
       IN  Record(Invocation(key, Input, empty_action, handled.input, handled.prevented,
                             IF handled.prevented THEN handled.input
                             ELSE hostDefault(handled.input, key)))

PairsAlphabet == {"(", ")", "\"", " ", "x"}

PairsKeys == PairsAlphabet \cup {"Backspace"}

PairsLanguages == {"javascript", "json", "plaintext"}

InitPairs ==
    /\ value \in Texts(PairsAlphabet, MaxLen)
    /\ \E se \in Selections(Len(value)) : selectionStart = se[1] /\ selectionEnd = se[2]
    /\ options \in [tabSize : {4}, insertSpaces : {TRUE}, language : PairsLanguages]
    /\ rule = NoRule
    /\ history = <<>>
    /\ steps = 0
    /\ NoCalls

NextPairs == \E key \in PairsKeys : PairsKeydown(key)

SpecPairs == InitPairs /\ [][NextPairs]_vars

\* the characters of the buffers an open token is typed in: those of
\* should_auto_close, an open token, a quote and a letter
AutoCloseAlphabet ==
    {" ", "\t", "\n", ".", ",", ";", ")", "]", "}", ">", "=", "(", "\"", "x"}

AutoCloseKeys == {"(", "\"", ")"}

InitAutoClose ==
    /\ value \in Texts(AutoCloseAlphabet, MaxPairLen)
    /\ \E se \in Selections(Len(value)) : selectionStart = se[1] /\ selectionEnd = se[2]
    /\ options \in [tabSize : {4}, insertSpaces : {TRUE}, language : {"javascript"}]
    /\ rule = NoRule
    /\ history = <<>>
    /\ steps = 0
    /\ NoCalls

NextAutoClose == \E key \in AutoCloseKeys : PairsKeydown(key)

SpecAutoClose == InitAutoClose /\ [][NextAutoClose]_vars

\* comments, onKeydown for the key "/" with the control key
ToggleComment ==
    /\ steps < MaxSteps
    /\ LET action == toggleComment(Input, rule)
           handled == applyAction(Input, action)
       IN  Record(Invocation("Ctrl+/", Input, action, handled, TRUE, handled))

LineTokens == {<<"#">>, <<"/", "/">>}

BlockTokens == {<<<<"/", "*">>, <<"*", "/">>>>}

CommentRules ==
    [lineComment : LineTokens, blockComment : {<<>>}, insertSpace : BOOLEAN]
    \cup [lineComment : {<<>>}, blockComment : BlockTokens, insertSpace : BOOLEAN]

\* the characters of the buffers of a rule: those of its tokens, a space, a
\* tab, a line break and a letter
CommentAlphabet(commentRule) ==
    Range(commentRule.lineComment)
    \cup UNION {Range(commentRule.blockComment[i]) : i \in DOMAIN commentRule.blockComment}
    \cup {" ", "\t", "\n", "x"}

InitComments ==
    /\ rule \in CommentRules
    /\ value \in Texts(CommentAlphabet(rule), MaxLen)
    /\ \E se \in Selections(Len(value)) : selectionStart = se[1] /\ selectionEnd = se[2]
    /\ options \in [tabSize : {4}, insertSpaces : {TRUE}, language : {"javascript"}]
    /\ history = <<>>
    /\ steps = 0
    /\ NoCalls

NextComments == ToggleComment

SpecComments == InitComments /\ [][NextComments]_vars

\* hookTab, case "Backspace": the key is never prevented, the host deletes
\* the selection the handler left or the character before the caret
KeydownBackspace ==
    /\ steps < MaxSteps
    /\ LET action == backspace(Input, options)
           handled == applyAction(Input, action)
       IN  Record(Invocation("Backspace", Input, action, handled, FALSE,
                             hostDefault(handled, "Backspace")))

\* the characters of the buffers Enter and Backspace are pressed in: the
\* whitespace, two opening brackets and one closing bracket
EnterAlphabet == {" ", "\t", "\n", "{", "[", "}"}

InitEnter ==
    /\ value \in Texts(EnterAlphabet, MaxLen)
    /\ \E se \in Selections(Len(value)) : selectionStart = se[1] /\ selectionEnd = se[2]
    /\ options \in [tabSize : TabSizes, insertSpaces : BOOLEAN, language : {"plaintext"}]
    /\ rule = NoRule
    /\ history = <<>>
    /\ steps = 0
    /\ NoCalls

NextEnter == KeydownEnter \/ KeydownBackspace

SpecEnter == InitEnter /\ [][NextEnter]_vars

\* hookTab with its four keys
NextHookTab == KeydownTab \/ KeydownShiftTab \/ KeydownEnter \/ KeydownBackspace

SpecHookTab == InitTab /\ [][NextHookTab]_vars

\* the text areas of a language with a block comment: a text of up to MaxLen
\* characters, with or without the open token before it and the close token
\* behind it, and with or without a letter around that
InitBlockComments ==
    /\ rule \in {r \in CommentRules : r.blockComment # <<>>}
    /\ \E inner \in Texts({" ", "\n", "x"}, MaxLen),
          open_comment \in {<<>>, rule.blockComment[1]},
          close_comment \in {<<>>, rule.blockComment[2]},
          prefix \in Texts({"x"}, 1), suffix \in Texts({"x"}, 1) :
           value = prefix \o open_comment \o inner \o close_comment \o suffix
    /\ \E se \in Selections(Len(value)) : selectionStart = se[1] /\ selectionEnd = se[2]
    /\ options \in [tabSize : {4}, insertSpaces : {TRUE}, language : {"javascript"}]
    /\ history = <<>>
    /\ steps = 0
    /\ NoCalls

SpecBlockComments == InitBlockComments /\ [][NextComments]_vars

\* the text area of an editor nobody types in
InitTabStops ==
    /\ value = <<>>
    /\ selectionStart = 0
    /\ selectionEnd = 0
    /\ options = [tabSize |-> 4, insertSpaces |-> TRUE, language |-> "plaintext"]
    /\ rule = NoRule
    /\ history = <<>>
    /\ steps = 0
    /\ NoCalls

\* a call of floorTab
CallFloorTab ==
    /\ \E width \in -1..MaxWidth, tabSize \in 1..MaxTabSize :
           tabStops' = [fn |-> "floorTab", width |-> width, tabSize |-> tabSize,
                        result |-> floorTab(width, tabSize)]
    /\ UNCHANGED <<value, selectionStart, selectionEnd, options, rule, history, steps,
                   editor_options, loaded, calls, microtasks, applied>>

\* a call of ceilTab
CallCeilTab ==
    /\ \E width \in -1..MaxWidth, tabSize \in 1..MaxTabSize :
           tabStops' = [fn |-> "ceilTab", width |-> width, tabSize |-> tabSize,
                        result |-> ceilTab(width, tabSize)]
    /\ UNCHANGED <<value, selectionStart, selectionEnd, options, rule, history, steps,
                   editor_options, loaded, calls, microtasks, applied>>

NextTabStops == CallFloorTab \/ CallCeilTab

SpecTabStops == InitTabStops /\ [][NextTabStops]_vars

----
(* The editor with the autoload plugin: updateOptions as an async function *)

ThemeNames == {"none", "dark", "light"}

LanguageNames == {"text", "js"}

\* UpdateOptions: every key is optional; Undefined stands for a key left out
UpdateOptionsSets ==
    [theme : ThemeNames \cup {Undefined}, language : LanguageNames \cup {Undefined}]

\* autoload: the loads one call of editor.updateOptions starts
task_list(newOptions, themes, langs) ==
    (IF newOptions.theme # Undefined /\ newOptions.theme # "none"
        /\ newOptions.theme \notin themes
     THEN {<<"theme", newOptions.theme>>} ELSE {})
    \cup
    (IF newOptions.language # Undefined /\ newOptions.language # "text"
        /\ newOptions.language \notin langs
     THEN {<<"language", newOptions.language>>} ELSE {})

\* create, updateOptions: Object.assign(editor_options, newOptions)
updateOptions(config, newOptions) ==
    [theme |-> IF newOptions.theme # Undefined THEN newOptions.theme ELSE config.theme,
     language |-> IF newOptions.language # Undefined THEN newOptions.language
                  ELSE config.language]

\* an editor created with the theme "none" and the language "text", on a
\* highlighter that may have loaded a theme already
InitAutoload ==
    /\ value = <<>>
    /\ selectionStart = 0
    /\ selectionEnd = 0
    /\ options = [tabSize |-> 4, insertSpaces |-> TRUE, language |-> "plaintext"]
    /\ rule = NoRule
    /\ history = <<>>
    /\ steps = 0
    /\ tabStops = <<>>
    /\ editor_options = [theme |-> "none", language |-> "text"]
    /\ loaded \in [themes : {{}, {"dark"}}, langs : {{}}]
    /\ calls = <<>>
    /\ microtasks = <<>>
    /\ applied = <<>>

\* autoload, editor.updateOptions up to its await: the loads are started;
\* Promise.all of an empty list is resolved at once, so that the rest of the
\* call is queued as a microtask
CallUpdateOptions ==
    /\ Len(calls) < MaxCalls
    /\ \E newOptions \in UpdateOptionsSets :
           LET tasks == task_list(newOptions, loaded.themes, loaded.langs)
           IN  /\ calls' = Append(calls, [newOptions |-> newOptions, task_list |-> tasks])
               /\ microtasks' = IF tasks = {} THEN Append(microtasks, Len(calls) + 1)
                                ELSE microtasks
    /\ UNCHANGED <<value, selectionStart, selectionEnd, options, rule, history, steps,
                   tabStops, editor_options, loaded, applied>>

\* highlighter.loadTheme or highlighter.loadLanguage of one call resolves;
\* with the last load of a call its Promise.all resolves and the rest of the
\* call is queued
LoadResolved ==
    /\ \E i \in DOMAIN calls : \E task \in calls[i].task_list :
           /\ loaded' = IF task[1] = "theme"
                        THEN [loaded EXCEPT !.themes = @ \cup {task[2]}]
                        ELSE [loaded EXCEPT !.langs = @ \cup {task[2]}]
           /\ calls' = [calls EXCEPT ![i].task_list = @ \ {task}]
           /\ microtasks' = IF calls[i].task_list = {task} THEN Append(microtasks, i)
                            ELSE microtasks
    /\ UNCHANGED <<value, selectionStart, selectionEnd, options, rule, history, steps,
                   tabStops, editor_options, applied>>

\* autoload, editor.updateOptions behind its await: the original
\* updateOptions is called
ResumeUpdateOptions ==
    /\ microtasks # <<>>
    /\ editor_options' = updateOptions(editor_options, calls[Head(microtasks)].newOptions)
    /\ applied' = Append(applied, Head(microtasks))
    /\ microtasks' = Tail(microtasks)
    /\ UNCHANGED <<value, selectionStart, selectionEnd, options, rule, history, steps,
                   tabStops, loaded, calls>>

NextAutoload == CallUpdateOptions \/ LoadResolved \/ ResumeUpdateOptions

SpecAutoload == InitAutoload /\ [][NextAutoload]_vars

----
(* Properties of the tab plugin *)

Last == history[1]

\* the invocation was a block indent: indentText took the blockIndentText branch
IsBlockIndent(h) ==
    /\ h.key = "Tab"
    /\ h.input.selectionStart # h.input.selectionEnd
    /\ \/ bothEndsSelected(h.input.value, h.input.selectionStart, h.input.selectionEnd)
       \/ "\n" \in Range(slice(h.input.value, h.input.selectionStart, h.input.selectionEnd))

\* the end of the line that starts at pos
LineStop(text, pos) ==
    CHOOSE i \in pos..Len(text) :
        /\ i = Len(text) \/ At(text, i) \in LineTerminator
        /\ \A j \in pos..(i - 1) : At(text, j) \notin LineTerminator

\* the lines of a text from pos on, each with the offset it starts at
RECURSIVE LinesFrom(_, _)
LinesFrom(text, pos) ==
    LET stop == LineStop(text, pos)
    IN  <<[start |-> pos, text |-> slice(text, pos, stop)]>> \o
        (IF stop < Len(text) THEN LinesFrom(text, stop + 1) ELSE <<>>)

Lines(text) == LinesFrom(text, 0)

\* the visual width of the leading whitespace of a line, and what follows it
LeadingWidth(line) == visibleWidthLeadingSpace(line, options.tabSize)[1]

Content(line) == slice(line, visibleWidthLeadingSpace(line, options.tabSize)[2], Len(line))

\* the lines (by number) of the range block_start..block_end
LinesOfBlock(text, block_start, block_end) ==
    {k \in 1..Len(Lines(text)) :
        block_start <= Lines(text)[k].start /\ Lines(text)[k].start <= block_end}

IndentBlock(input) ==
    LinesOfBlock(input.value, getLineStart(input.value, input.selectionStart),
                 getBlockLineEnd(input.value, input.selectionEnd))

OutdentBlock(input) ==
    LinesOfBlock(input.value, getLineStart(input.value, input.selectionStart),
                 getBlockLineEnd(input.value, Max(input.selectionEnd, input.selectionStart + 1)))

\* every line of the block has the same leading visual width
UniformBlock(input) ==
    \A j, k \in IndentBlock(input) :
        LeadingWidth(Lines(input.value)[j].text) = LeadingWidth(Lines(input.value)[k].text)

\* every line of the block is indented by a whole number of tab stops
AlignedBlock(input) ==
    \A k \in IndentBlock(input) : LeadingWidth(Lines(input.value)[k].text) % options.tabSize = 0

\* a block indent immediately followed by an outdent of the resulting state
IndentThenOutdent ==
    Len(history) = 2 /\ IsBlockIndent(history[2]) /\ history[1].key = "Shift+Tab"

\* every line of the block indented first has its leading width and its content back
BlockRestored ==
    LET before == Lines(history[2].input.value)
        after == Lines(history[1].result.value)
    IN  /\ Len(after) = Len(before)
        /\ \A k \in IndentBlock(history[2].input) :
               /\ LeadingWidth(after[k].text) = LeadingWidth(before[k].text)
               /\ Content(after[k].text) = Content(before[k].text)

\* C1 as stated: a block of uniform leading width is restored by block indent
\* followed by outdent
C1_RoundTripUniform ==
    (IndentThenOutdent /\ UniformBlock(history[2].input)) => BlockRestored

\* C1 amended: a block whose lines all have the same leading width, a multiple
\* of tabSize, is restored by block indent followed by outdent
C1_RoundTripAligned ==
    (IndentThenOutdent /\ UniformBlock(history[2].input) /\ AlignedBlock(history[2].input))
        => BlockRestored

C1_Witness ==
    /\ IndentThenOutdent
    /\ UniformBlock(history[2].input) /\ AlignedBlock(history[2].input)
    /\ Cardinality(IndentBlock(history[2].input)) >= 2
    /\ \E k \in IndentBlock(history[2].input) : Content(Lines(history[2].input.value)[k].text) # <<>>
    /\ history[1].action.patch # <<>>
    /\ BlockRestored

\* C2: whenever block indent or outdentText returns a select, it lies within
\* the buffer obtained by applying the returned patch:
\* 0 <= select.start <= select.end <= length of the new buffer
C2_SelectWithinNewValue ==
    (history # <<>> /\ Last.key \in {"Tab", "Shift+Tab"} /\ Last.action.select # <<>>) =>
        LET select == Last.action.select[1]
            newValue == applyPatch(Last.input, Last.action).value
        IN  0 <= select.start /\ select.start <= select.end /\ select.end <= Len(newValue)

\* C3: every patch returned by indentText, outdentText and enter satisfies
\* 0 <= patch.start <= patch.end <= value.length
C3_PatchWithinValue ==
    (history # <<>> /\ Last.key \in {"Tab", "Shift+Tab", "Enter"} /\ Last.action.patch # <<>>) =>
        LET patch == Last.action.patch[1]
        IN  0 <= patch.start /\ patch.start <= patch.end /\ patch.end <= Len(Last.input.value)

\* the invocation was indentText on a collapsed caret
IsCaretIndent(h) == h.key = "Tab" /\ h.input.selectionStart = h.input.selectionEnd

\* C4: after indentText on a collapsed caret the visual width at the caret is
\* the smallest multiple of tabSize strictly greater than the visual width
\* before, and the text before and after the caret is unchanged
C4_CaretIndentNextTabStop ==
    (history # <<>> /\ IsCaretIndent(Last)) =>
        LET old == Last.input
            new == Last.result
            width == visibleWidthFromLineStart(old.value, old.selectionStart, options.tabSize)[1]
        IN  /\ new.selectionStart = new.selectionEnd
            /\ visibleWidthFromLineStart(new.value, new.selectionStart, options.tabSize)[1]
                   = ((width \div options.tabSize) + 1) * options.tabSize
            /\ slice(new.value, 0, old.selectionStart) = slice(old.value, 0, old.selectionStart)
            /\ slice(new.value, new.selectionStart, Len(new.value))
                   = slice(old.value, old.selectionStart, Len(old.value))
            /\ new.selectionStart > old.selectionStart

C4_Witness ==
    /\ history # <<>> /\ IsCaretIndent(Last)
    /\ {" ", "\t"} \subseteq Range(slice(Last.input.value, 0, Last.input.selectionStart))
    /\ visibleWidthFromLineStart(Last.input.value, Last.input.selectionStart, options.tabSize)[1]
           % options.tabSize # 0

\* C5: outdentText leaves every line with a leading width that is not
\* negative and not greater than before, a line of leading width 0 stays at
\* width 0, and the Action is empty when no line of the block has a leading
\* space or tab
C5_OutdentFloor ==
    (history # <<>> /\ Last.key = "Shift+Tab") =>
        LET before == Lines(Last.input.value)
            after == Lines(Last.result.value)
        IN  /\ Len(after) = Len(before)
            /\ \A k \in 1..Len(before) :
                   /\ LeadingWidth(after[k].text) >= 0
                   /\ LeadingWidth(after[k].text) <= LeadingWidth(before[k].text)
                   /\ LeadingWidth(before[k].text) = 0 => after[k].text = before[k].text
            /\ (\A k \in OutdentBlock(Last.input) : LeadingWidth(before[k].text) = 0)
                   => (Last.action = empty_action /\ Last.result = Last.input)

C5_Witness ==
    /\ history # <<>> /\ Last.key = "Shift+Tab"
    /\ Cardinality(OutdentBlock(Last.input)) >= 2
    /\ \A k \in OutdentBlock(Last.input) : LeadingWidth(Lines(Last.input.value)[k].text) = 0
    /\ \E k \in 1..Len(Lines(Last.input.value)) : LeadingWidth(Lines(Last.input.value)[k].text) > 0
    /\ Last.action = empty_action

\* C10: block indent replaces the range from the start of the selection's
\* first line to the block end, and in the replacement every non-empty line
\* has its leading whitespace replaced by indentation of width
\* ceilTab(w+1, tabSize), as spaces or as tabs; empty lines are unchanged
C10_BlockIndentReplacement ==
    (history # <<>> /\ IsBlockIndent(Last)) =>
        LET v == Last.input.value
            patch == Last.action.patch[1]
            old == Lines(slice(v, patch.start, patch.end))
            new == Lines(patch.value)
        IN  /\ Last.action.patch # <<>>
            /\ patch.start = getLineStart(v, Last.input.selectionStart)
            /\ patch.start <= patch.end
            /\ patch.end \in {i \in 0..Len(v) : i = Len(v) \/ At(v, i) \in LineTerminator}
            /\ Len(new) = Len(old)
            /\ \A k \in 1..Len(old) :
                   IF old[k].text = <<>> THEN new[k].text = <<>>
                   ELSE LET width == ((LeadingWidth(old[k].text) \div options.tabSize) + 1)
                                         * options.tabSize
                        IN  new[k].text =
                                (IF options.insertSpaces THEN [i \in 1..width |-> " "]
                                 ELSE [i \in 1..(width \div options.tabSize) |-> "\t"])
                                \o Content(old[k].text)

\* the line terminators of a text, in order
Terminators(text) == SelectSeq(text, LAMBDA ch : ch \in LineTerminator)

\* the offset at which the line of offset pos starts
LineStartOf(text, pos) ==
    CHOOSE i \in 0..pos :
        /\ i = 0 \/ At(text, i - 1) \in LineTerminator
        /\ \A j \in i..(pos - 1) : At(text, j) \notin LineTerminator

\* a line with its leading whitespace reduced to the tab stop below
OutdentedLine(line) ==
    LET width == Max(0, ((LeadingWidth(line) - 1) \div options.tabSize) * options.tabSize)
    IN  (IF options.insertSpaces THEN [i \in 1..width |-> " "]
         ELSE [i \in 1..(width \div options.tabSize) |-> "\t"])
        \o Content(line)

\* the lines (by number) from the line of the caret to the block end
OutdentedLines(input) ==
    LinesOfBlock(input.value, LineStartOf(input.value, input.selectionStart),
                 getBlockLineEnd(input.value, Max(input.selectionEnd, input.selectionStart + 1)))

\* the text outdentText leaves is the text before with every line from the
\* line of the caret to the block end outdented
OutdentedAsClaimed(h) ==
    LET before == Lines(h.input.value)
        after == Lines(h.result.value)
    IN  /\ Len(after) = Len(before)
        /\ Terminators(h.result.value) = Terminators(h.input.value)
        /\ \A k \in 1..Len(before) :
               after[k].text = IF k \in OutdentedLines(h.input) THEN OutdentedLine(before[k].text)
                               ELSE before[k].text

\* the offset at which the k-th of the lines a text is split into starts
RECURSIVE StartOfLine(_, _)
StartOfLine(lines, k) ==
    IF k = 1 THEN 0 ELSE StartOfLine(lines, k - 1) + Len(lines[k - 1]) + 1

\* the same with the lines taken to end at a line feed only
OutdentedAsClaimedLF(h) ==
    LET v == h.input.value
        lines == split(v)
        block_start == getLineStart(v, h.input.selectionStart)
        block_end == getBlockLineEnd(v, Max(h.input.selectionEnd, h.input.selectionStart + 1))
    IN  h.result.value =
            join([k \in DOMAIN lines |->
                     IF block_start <= StartOfLine(lines, k) /\ StartOfLine(lines, k) <= block_end
                     THEN OutdentedLine(lines[k]) ELSE lines[k]])

\* C11: outdentText, for any selection including a collapsed caret, replaces
\* the leading run of spaces and tabs of each line from the start of the
\* caret's line to the block end by indentation of visual width
\* floorTab(w-1, tabSize), or by nothing when that is <= 0, as spaces or tabs
\* per insertSpaces, and changes nothing else; the lines are those a line
\* feed ends, or those a line feed or a carriage return ends
C11_OutdentReplacement ==
    (history # <<>> /\ Last.key = "Shift+Tab") =>
        (OutdentedAsClaimed(Last) \/ OutdentedAsClaimedLF(Last))

\* the offset at which the line of offset pos starts, a line ending at a
\* line feed
LineStartLF(text, pos) ==
    CHOOSE i \in 0..pos :
        /\ i = 0 \/ At(text, i - 1) = "\n"
        /\ \A j \in i..(pos - 1) : At(text, j) # "\n"

\* indentation of a visual width that is a multiple of tabSize
Indent(width) ==
    IF options.insertSpaces THEN [i \in 1..width |-> " "]
    ELSE [i \in 1..(width \div options.tabSize) |-> "\t"]

\* the leading visual width of the text between the line start and the
\* caret, rounded down to a tab stop
FlooredLeading(input) ==
    LET line == slice(input.value, LineStartLF(input.value, input.selectionStart),
                      input.selectionStart)
    IN  (LeadingWidth(line) \div options.tabSize) * options.tabSize

\* the same, one level deeper behind an opening bracket
IncrementedLeading(input) ==
    FlooredLeading(input)
    + (IF At(input.value, input.selectionStart - 1) \in {"(", "[", "{"} THEN options.tabSize ELSE 0)

\* the caret is between an empty pair of brackets
BetweenEmptyPair(input) ==
    /\ input.selectionStart = input.selectionEnd
    /\ <<At(input.value, input.selectionStart - 1), At(input.value, input.selectionStart)>>
           \in {<<"(", ")">>, <<"[", "]">>, <<"{", "}">>}

\* enter has nothing to do: a selection, or a caret at a line start
EnterDeclines(input) ==
    \/ input.selectionStart # input.selectionEnd
    \/ LineStartLF(input.value, input.selectionStart) = input.selectionStart

\* C12: enter returns the empty Action when the selection is non-empty or
\* the caret is at a line start; otherwise, when the caret is not between an
\* empty bracket pair, it returns only a patch that inserts at the caret,
\* replacing nothing, a newline followed by indentation of width
\* floorTab(leading width of the text between line start and caret), one
\* tabSize more behind ( [ {, as spaces or tabs per insertSpaces
C12_EnterIndent ==
    (history # <<>> /\ Last.key = "Enter") =>
        /\ EnterDeclines(Last.input) => Last.action = empty_action
        /\ (~EnterDeclines(Last.input) /\ ~BetweenEmptyPair(Last.input)) =>
               LET s == Last.input.selectionStart
                   inserted == <<"\n">> \o Indent(IncrementedLeading(Last.input))
               IN  /\ Last.action.select = <<>>
                   /\ Last.action.patch # <<>>
                   /\ Last.action.patch[1].start = s
                   /\ Last.action.patch[1].end = s
                   /\ Last.action.patch[1].value = inserted
                   /\ Last.result.value =
                          slice(Last.input.value, 0, s) \o inserted
                          \o slice(Last.input.value, s, Len(Last.input.value))

C12_Witness ==
    /\ history # <<>> /\ Last.key = "Enter"
    /\ ~EnterDeclines(Last.input) /\ ~BetweenEmptyPair(Last.input)
    /\ At(Last.input.value, Last.input.selectionStart - 1) = "{"
    /\ FlooredLeading(Last.input) > 0
    /\ Len(Last.action.patch[1].value) = 1 + Len(Indent(FlooredLeading(Last.input) + options.tabSize))

\* C13: with a collapsed caret between an empty pair () [] {} the patch of
\* enter inserts newline + incremented indentation + newline + the original
\* indentation, the select is collapsed at caret + length of the first
\* inserted line, and after patch and select the caret is at the end of the
\* new middle line while the closing bracket starts a line of its own
\* indented by the original indentation
C13_EnterBetweenPair ==
    (history # <<>> /\ Last.key = "Enter" /\ BetweenEmptyPair(Last.input)) =>
        LET v == Last.input.value
            s == Last.input.selectionStart
            first == <<"\n">> \o Indent(FlooredLeading(Last.input) + options.tabSize)
            second == <<"\n">> \o Indent(FlooredLeading(Last.input))
        IN  /\ Last.action.patch # <<>>
            /\ Last.action.patch[1].start = s
            /\ Last.action.patch[1].end = s
            /\ Last.action.patch[1].value = first \o second
            /\ Last.action.select = <<SelectAction(s + Len(first), s + Len(first))>>
            /\ Last.prevented
            /\ Last.result.value = slice(v, 0, s) \o first \o second \o slice(v, s, Len(v))
            /\ Last.result.selectionStart = s + Len(first)
            /\ Last.result.selectionEnd = s + Len(first)
            /\ At(Last.result.value, Last.result.selectionStart) = "\n"
            /\ At(Last.result.value, s + Len(first) + Len(second)) = At(v, s)

C13_Witness ==
    /\ history # <<>> /\ Last.key = "Enter" /\ BetweenEmptyPair(Last.input)
    /\ FlooredLeading(Last.input) > 0
    /\ Last.action.select # <<>>
    /\ Len(Last.result.value) > Len(Last.input.value) + 2 + options.tabSize \div 2

\* a collapsed caret preceded by a space, with only spaces and tabs between
\* the line start and the caret
InIndentation(input) ==
    /\ input.selectionStart = input.selectionEnd
    /\ At(input.value, input.selectionStart - 1) = " "
    /\ \A j \in LineStartLF(input.value, input.selectionStart)..(input.selectionStart - 1) :
           At(input.value, j) \in {" ", "\t"}

\* the visual width of the text between the line start and offset p
WidthAt(text, p) == LeadingWidth(slice(text, LineStartLF(text, p), p))

\* the largest offset before the caret, on its line, that is on a tab stop
LastTabStop(input) ==
    CHOOSE p \in LineStartLF(input.value, input.selectionStart)..(input.selectionStart - 1) :
        /\ WidthAt(input.value, p) % options.tabSize = 0
        /\ \A q \in (p + 1)..(input.selectionStart - 1) :
               WidthAt(input.value, q) % options.tabSize # 0

\* C14: backspace with a collapsed caret preceded by a space and only spaces
\* and tabs between the line start and the caret returns a select from the
\* last tab stop before the caret to the caret, so that deleting the
\* selection leaves leading whitespace of width floorTab(w-1, tabSize)
\* where w is the visual width at the caret
C14_BackspaceTabStop ==
    (history # <<>> /\ Last.key = "Backspace" /\ InIndentation(Last.input)) =>
        LET v == Last.input.value
            s == Last.input.selectionStart
            w == WidthAt(v, s)
        IN  /\ Last.action.select = <<SelectAction(LastTabStop(Last.input), s)>>
            /\ Last.result.value =
                   slice(v, 0, LastTabStop(Last.input)) \o slice(v, s, Len(v))
            /\ WidthAt(Last.result.value, Last.result.selectionStart)
                   = ((w - 1) \div options.tabSize) * options.tabSize

\* backspace has nothing to do
BackspaceDeclines(input) ==
    \/ input.selectionStart # input.selectionEnd
    \/ input.selectionStart = 0
    \/ At(input.value, input.selectionStart - 1) # " "
    \/ \E j \in LineStartLF(input.value, input.selectionStart)..(input.selectionStart - 1) :
           At(input.value, j) \notin {" ", "\t"}

\* C15: backspace returns the empty Action whenever the selection is not
\* collapsed, the caret is at offset 0, the character before the caret is
\* not a space, or a character between the line start and the caret is
\* neither a space nor a tab; it never returns a patch
C15_BackspaceDeclines ==
    (history # <<>> /\ Last.key = "Backspace") =>
        /\ Last.action.patch = <<>>
        /\ BackspaceDeclines(Last.input) =>
               (Last.action = empty_action /\ Last.handled = Last.input)

C15_Witness ==
    /\ history # <<>> /\ Last.key = "Backspace"
    /\ Last.input.selectionStart = Last.input.selectionEnd
    /\ At(Last.input.value, Last.input.selectionStart - 1) = " "
    /\ At(Last.input.value, Last.input.selectionStart - 2) = "\t"
    /\ At(Last.input.value, Last.input.selectionStart - 3) = "{"
    /\ Last.action = empty_action

\* a non-empty selection whose end is at the start of a line
EndsAtLineStart(input) ==
    /\ input.selectionStart < input.selectionEnd
    /\ At(input.value, input.selectionEnd - 1) = "\n"

\* the end of the last non-empty line that ends before offset pos, or 0
PreviousLineEnd(text, pos) ==
    LET ends == {i \in 1..(pos - 1) :
                    At(text, i) \in LineTerminator /\ At(text, i - 1) \notin LineTerminator}
    IN  IF ends = {} THEN 0 ELSE CHOOSE i \in ends : \A j \in ends : j <= i

\* C16: for block indent and outdent, when the selection is non-empty and
\* its end is at the start of a line, that line is not part of the block:
\* the patch range ends at or before the end of the previous non-empty line
\* and the text from the selection end on, the leading whitespace of that
\* line included, is unchanged
C16_EndAtLineStartExcluded ==
    (history # <<>> /\ Last.key \in {"Tab", "Shift+Tab"} /\ EndsAtLineStart(Last.input)) =>
        LET v == Last.input.value
            e == Last.input.selectionEnd
            new == Last.result.value
        IN  /\ Last.action.patch # <<>> =>
                   Last.action.patch[1].end <= PreviousLineEnd(v, e)
            /\ Len(new) >= Len(v) - e
            /\ slice(new, Len(new) - (Len(v) - e), Len(new)) = slice(v, e, Len(v))
            /\ At(new, Len(new) - (Len(v) - e) - 1) = "\n"

C16_Witness ==
    /\ history # <<>> /\ Last.key \in {"Tab", "Shift+Tab"} /\ EndsAtLineStart(Last.input)
    /\ At(Last.input.value, Last.input.selectionEnd) \in {" ", "\t"}
    /\ Last.action.patch # <<>>
    /\ Last.result.value # Last.input.value

\* the keys the tab plugin handles
TabPluginKeys == {"Tab", "Shift+Tab", "Enter", "Backspace"}

\* the Action of an invocation carries a patch or a select
ActionPresent(h) == h.action.patch # <<>> \/ h.action.select # <<>>

\* an offset handed to the text area: one outside the text is its end
Clamp(n, length) == IF n < 0 \/ n > length THEN length ELSE n

\* the text area after the patch of an invocation and then its select: the
\* range of the patch is replaced and the caret put as patch.mode says, and
\* the select, when there is one, replaces that selection
PatchThenSelect(h) ==
    LET v == h.input.value
        patched ==
            IF h.action.patch = <<>> THEN h.input
            ELSE LET patch == h.action.patch[1]
                     to == Clamp(patch.end, Len(v))
                     from == Min(Clamp(patch.start, Len(v)), to)
                     text == slice(v, 0, from) \o patch.value \o slice(v, to, Len(v))
                     first == IF patch.mode = "end" THEN patch.start + Len(patch.value)
                              ELSE patch.start
                     last == IF patch.mode = "start" THEN patch.start
                             ELSE patch.start + Len(patch.value)
                 IN  [value |-> text,
                      selectionStart |-> Min(Clamp(first, Len(text)), Clamp(last, Len(text))),
                      selectionEnd |-> Clamp(last, Len(text))]
    IN  IF h.action.select = <<>> THEN patched
        ELSE LET n == Len(patched.value)
                 select == h.action.select[1]
             IN  [value |-> patched.value,
                  selectionStart |-> Min(Clamp(select.start, n), Clamp(select.end, n)),
                  selectionEnd |-> Clamp(select.end, n)]

\* C22 as stated: for Tab, Shift+Tab, Enter and Backspace the adapter
\* suppresses the default handling of the key whenever the Action has a patch
\* or a select; the patch is applied before the select and the select
\* overrides the selection implied by patch.mode
C22_AdapterSuppresses ==
    (history # <<>> /\ Last.key \in TabPluginKeys) =>
        /\ ActionPresent(Last) => (Last.prevented /\ Last.result = Last.handled)
        /\ Last.handled = PatchThenSelect(Last)

\* C22 amended: for Tab, Shift+Tab and Enter the default handling is
\* suppressed whenever the Action has a patch or a select; for Backspace it
\* is never suppressed, the host deletes the selection the select has set;
\* the patch is applied before the select and the select overrides the
\* selection implied by patch.mode
C22_AdapterSuppressesButBackspace ==
    (history # <<>> /\ Last.key \in TabPluginKeys) =>
        /\ (Last.key # "Backspace" /\ ActionPresent(Last)) =>
               (Last.prevented /\ Last.result = Last.handled)
        /\ Last.key = "Backspace" =>
               /\ ~Last.prevented
               /\ Last.action.select # <<>> =>
                      Last.result.value =
                          slice(Last.handled.value, 0, Last.handled.selectionStart)
                          \o slice(Last.handled.value, Last.handled.selectionEnd,
                                   Len(Last.handled.value))
        /\ Last.handled = PatchThenSelect(Last)

C22_Witness ==
    /\ Len(history) = 2
    /\ history[2].key = "Backspace" /\ history[2].action.select # <<>>
    /\ ~history[2].prevented
    /\ Len(history[2].result.value) < Len(history[2].input.value) - 1
    /\ Last.key = "Shift+Tab"
    /\ Last.action.patch # <<>> /\ Last.action.select # <<>>
    /\ Last.prevented
    /\ Last.handled.value # Last.input.value

\* the number of leading spaces and tabs of a line
LeadingLength(line) ==
    CHOOSE i \in 0..Len(line) :
        /\ i = Len(line) \/ At(line, i) \notin {" ", "\t"}
        /\ \A j \in 0..(i - 1) : At(line, j) \in {" ", "\t"}

\* the invocation was a block indent or an outdent that changed the text
IsBlockEdit(h) ==
    /\ IsBlockIndent(h) \/ h.key = "Shift+Tab"
    /\ h.action.patch # <<>>
    /\ h.action.select # <<>>

\* the offset at which the line of offset pos starts, the lines ending at
\* the characters of ends
LineStartAt(text, pos, ends) ==
    CHOOSE i \in 0..pos :
        /\ i = 0 \/ At(text, i - 1) \in ends
        /\ \A j \in i..(pos - 1) : At(text, j) \notin ends

\* the line of a text that offset pos is on
LineOf(text, pos, ends) ==
    LET stop == CHOOSE i \in pos..Len(text) :
                    /\ i = Len(text) \/ At(text, i) \in ends
                    /\ \A j \in pos..(i - 1) : At(text, j) \notin ends
    IN  slice(text, LineStartAt(text, pos, ends), stop)

\* offset pos is strictly behind the leading whitespace of its line: a
\* character that is neither a space nor a tab lies between the line start
\* and pos
InContent(text, pos, ends) ==
    \E j \in LineStartAt(text, pos, ends)..(pos - 1) : At(text, j) \notin {" ", "\t"}

\* the text the patch of an invocation leaves
NewValue(h) == applyPatch(h.input, h.action).value

\* a selection start in content is shifted by the change of the leading
\* length of its line, a selection end in content by the total length change,
\* and both stay before the same character
SelectionInContentShifted(h, ends) ==
    LET v == h.input.value
        s == h.input.selectionStart
        e == h.input.selectionEnd
        new == NewValue(h)
        select == h.action.select[1]
        first == LineStartAt(v, s, ends)
        block_end == getBlockLineEnd(v, IF h.key = "Shift+Tab" THEN Max(e, s + 1) ELSE e)
        last == LineStartAt(v, Max(0, Min(block_end, Len(v))), ends)
    IN  /\ InContent(v, s, ends) =>
               /\ select.start = s + LeadingLength(LineOf(new, first, ends))
                                   - LeadingLength(LineOf(v, first, ends))
               /\ At(new, select.start) = At(v, s)
        /\ (InContent(v, e, ends) /\ LineStartAt(v, e, ends) = last) =>
               /\ select.end = e + Len(new) - Len(v)
               /\ At(new, select.end) = At(v, e)

\* C23: after block indent or outdent, a selection start strictly behind the
\* leading whitespace of its line is shifted by (new leading length - old
\* leading length) of that line and stays before the same character; a
\* selection end behind the leading whitespace of the last affected line is
\* shifted by the total length change and stays before the same character;
\* the lines are those a line feed ends, or those a line feed or a carriage
\* return ends
C23_SelectionInContent ==
    (history # <<>> /\ IsBlockEdit(Last)) =>
        (SelectionInContentShifted(Last, {"\n"}) \/ SelectionInContentShifted(Last, LineTerminator))

C23_Witness ==
    /\ history # <<>> /\ IsBlockIndent(Last) /\ IsBlockEdit(Last)
    /\ InContent(Last.input.value, Last.input.selectionStart, {"\n"})
    /\ InContent(Last.input.value, Last.input.selectionEnd, {"\n"})
    /\ LineStartLF(Last.input.value, Last.input.selectionStart)
           < LineStartLF(Last.input.value, Last.input.selectionEnd)
    /\ Last.action.select[1].start > Last.input.selectionStart
    /\ Last.action.select[1].end > Last.input.selectionEnd + 1

\* the number of the line of offset pos
LineIndex(text, pos, ends) == Cardinality({j \in 0..(pos - 1) : At(text, j) \in ends})

\* offset pos stands behind a non-empty run of leading whitespace and before
\* the first other character of its line
AtBoundary(text, pos, ends) ==
    /\ ~InContent(text, pos, ends)
    /\ LineStartAt(text, pos, ends) < pos
    /\ At(text, pos) \notin ({" ", "\t", Undefined} \cup ends)

\* offset pos of the text before stands in the non-empty leading whitespace of
\* its line or at its end, and offset q of the text after stands in the leading
\* whitespace of the same line or at its end
StaysInLeading(v, pos, new, q, ends) ==
    (~InContent(v, pos, ends) /\ LeadingLength(LineOf(v, pos, ends)) > 0) =>
        /\ q \in 0..Len(new)
        /\ LineIndex(new, q, ends) = LineIndex(v, pos, ends)
        /\ ~InContent(new, q, ends)

\* offset pos of the text before stands at the boundary, and offset q of the
\* text after stands at the boundary before the same character
StaysAtBoundary(v, pos, new, q, ends) ==
    AtBoundary(v, pos, ends) =>
        /\ q \in 0..Len(new)
        /\ LineIndex(new, q, ends) = LineIndex(v, pos, ends)
        /\ ~InContent(new, q, ends)
        /\ At(new, q) = At(v, pos)

BoundaryAndLeadingKept(h, ends) ==
    LET v == h.input.value
        new == NewValue(h)
        select == h.action.select[1]
    IN  /\ StaysAtBoundary(v, h.input.selectionStart, new, select.start, ends)
        /\ StaysAtBoundary(v, h.input.selectionEnd, new, select.end, ends)
        /\ StaysInLeading(v, h.input.selectionStart, new, select.start, ends)
        /\ StaysInLeading(v, h.input.selectionEnd, new, select.end, ends)

\* C24: after block indent or outdent, a selection start or end at the
\* boundary between the leading whitespace and the first other character of
\* its line stays immediately before that character, and one inside the
\* leading whitespace ends inside or at the end of the new leading whitespace
\* of the same line, never inside content
C24_BoundaryKept ==
    (history # <<>> /\ IsBlockEdit(Last)) =>
        (BoundaryAndLeadingKept(Last, {"\n"}) \/ BoundaryAndLeadingKept(Last, LineTerminator))

\* offset pos of the text before stands in the non-empty leading whitespace of
\* its line or at its end, and offset q of the text after stands as far behind
\* the start of the same line, or at the end of the new leading whitespace
\* where that is shorter or where pos was the end of a line of whitespace
KeepsOffsetInLeading(v, pos, new, q, ends) ==
    (~InContent(v, pos, ends) /\ LeadingLength(LineOf(v, pos, ends)) > 0) =>
        /\ q \in 0..Len(new)
        /\ LineIndex(new, q, ends) = LineIndex(v, pos, ends)
        /\ LET leading == LeadingLength(LineOf(new, q, ends))
               offset == q - LineStartAt(new, q, ends)
           IN  \/ offset = Min(pos - LineStartAt(v, pos, ends), leading)
               \/ offset = leading /\ At(v, pos) \in ({Undefined} \cup LineTerminator)

LeadingKept(h, ends) ==
    LET v == h.input.value
        new == NewValue(h)
        select == h.action.select[1]
    IN  /\ KeepsOffsetInLeading(v, h.input.selectionStart, new, select.start, ends)
        /\ KeepsOffsetInLeading(v, h.input.selectionEnd, new, select.end, ends)

\* C24 as the code has it: after block indent or outdent, a selection start or
\* end in the leading whitespace of its line or at its end keeps its offset
\* from the line start, but stands at the end of the new leading whitespace
\* where that is shorter; it stays before the first other character only
\* then, and never stands inside content; the lines are those a line feed ends
C24_LeadingKept ==
    (history # <<>> /\ IsBlockEdit(Last)) => LeadingKept(Last, {"\n"})

C24_Witness ==
    /\ history # <<>> /\ IsBlockIndent(Last) /\ IsBlockEdit(Last)
    /\ AtBoundary(Last.input.value, Last.input.selectionStart, {"\n"})
    /\ Last.action.select[1].start = Last.input.selectionStart
    /\ ~AtBoundary(NewValue(Last), Last.action.select[1].start, {"\n"})
    /\ ~InContent(NewValue(Last), Last.action.select[1].start, {"\n"})

\* the multiples of tabSize around the widths of the model
Multiples(tabSize) == {k * tabSize : k \in -1..(MaxWidth + 1)}

\* floor(width / tabSize) * tabSize: the greatest multiple that is not above
\* the width
FloorMultiple(width, tabSize) ==
    CHOOSE m \in Multiples(tabSize) : m <= width /\ width < m + tabSize

\* ceil(width / tabSize) * tabSize: the least multiple that is not below the
\* width
CeilMultiple(width, tabSize) ==
    CHOOSE m \in Multiples(tabSize) : m - tabSize < width /\ width <= m

----
(* Properties of the comment plugin *)

\* two toggles of the line comment, the second on the state the first left
LineToggledTwice ==
    Len(history) = 2 /\ rule.lineComment # <<>>

\* C6 as stated: toggling the line comment twice returns the original text
C6_LineToggleTwice ==
    LineToggledTwice => history[1].result.value = history[2].input.value

\* the first toggle removed no token: it added tokens or did nothing
FirstToggleAdds == Len(history[2].result.value) >= Len(history[2].input.value)

\* C6 amended: when the first toggle adds the token, a second toggle on the
\* resulting state returns the original text
C6_CommentThenUncomment ==
    (LineToggledTwice /\ FirstToggleAdds) => history[1].result.value = history[2].input.value

C6_Witness ==
    /\ LineToggledTwice /\ FirstToggleAdds
    /\ history[2].input.selectionStart # history[2].input.selectionEnd
    /\ "\n" \in Range(slice(history[2].input.value, history[2].input.selectionStart,
                            history[2].input.selectionEnd))
    /\ Len(history[2].result.value) > Len(history[2].input.value) + Len(rule.lineComment)
    /\ history[1].result.value = history[2].input.value

\* the selection of an invocation is not enclosed by the block comment tokens
IsWrap(h) ==
    ~ /\ slice(h.input.value, Max(0, h.input.selectionStart - Len(rule.blockComment[1])),
               h.input.selectionStart) = rule.blockComment[1]
      /\ slice(h.input.value, h.input.selectionEnd,
               Min(Len(h.input.value), h.input.selectionEnd + Len(rule.blockComment[2])))
             = rule.blockComment[2]

\* C7: with only a block comment pair, a wrap followed by a toggle on the
\* resulting state gives back the original buffer and selection
C7_WrapThenUnwrap ==
    (Len(history) = 2 /\ rule.lineComment = <<>> /\ rule.blockComment # <<>> /\ IsWrap(history[2]))
        => history[1].result = history[2].input

\* the invocation toggled the line comment with a collapsed caret
IsCaretLineToggle(h) ==
    /\ h.key = "Ctrl+/"
    /\ rule.lineComment # <<>>
    /\ h.input.selectionStart = h.input.selectionEnd

\* the offset at which the line of offset pos ends
LineEndOf(text, pos) ==
    CHOOSE i \in pos..Len(text) :
        /\ i = Len(text) \/ At(text, i) \in LineTerminator
        /\ \A j \in pos..(i - 1) : At(text, j) \notin LineTerminator

\* the offset of the first character of the caret's line that is not
\* whitespace, or the end of the line
ContentStart(input) ==
    LET stop == LineEndOf(input.value, input.selectionStart)
    IN  CHOOSE i \in LineStartLF(input.value, input.selectionStart)..stop :
            /\ i = stop \/ At(input.value, i) \notin {" ", "\t"}
            /\ \A j \in LineStartLF(input.value, input.selectionStart)..(i - 1) :
                   At(input.value, j) \in {" ", "\t"}

\* the content of the caret's line starts with the comment token
LineIsCommented(input) ==
    slice(input.value, ContentStart(input), ContentStart(input) + Len(rule.lineComment))
        = rule.lineComment
    /\ ContentStart(input) + Len(rule.lineComment) <= LineEndOf(input.value, input.selectionStart)

\* C20: the line-comment toggle with a collapsed caret edits only the
\* caret's line: when the content after the leading whitespace starts with
\* the token, exactly the token, and one following space when insertSpace is
\* true and a space follows, is removed; otherwise the token, and a space
\* when insertSpace is true, is inserted behind the leading whitespace,
\* before the first character that is not whitespace; all other text is
\* unchanged
C20_CaretLineToggle ==
    (history # <<>> /\ IsCaretLineToggle(Last)) =>
        LET v == Last.input.value
            pos == ContentStart(Last.input)
            token == rule.lineComment
            removed == Len(token)
                       + (IF rule.insertSpace /\ At(v, pos + Len(token)) = " " THEN 1 ELSE 0)
            added == token \o (IF rule.insertSpace THEN <<" ">> ELSE <<>>)
        IN  IF LineIsCommented(Last.input)
            THEN /\ Last.action.patch = <<PatchAction(<<>>, pos, pos + removed, "end")>>
                 /\ Last.result.value = slice(v, 0, pos) \o slice(v, pos + removed, Len(v))
            ELSE /\ Last.action.patch = <<PatchAction(added, pos, pos, "end")>>
                 /\ Last.result.value = slice(v, 0, pos) \o added \o slice(v, pos, Len(v))

C20_Witness ==
    /\ Len(history) = 2 /\ IsCaretLineToggle(Last) /\ IsCaretLineToggle(history[2])
    /\ ~LineIsCommented(history[2].input)
    /\ LineIsCommented(Last.input)
    /\ rule.insertSpace
    /\ ContentStart(Last.input) > LineStartLF(Last.input.value, Last.input.selectionStart)
    /\ LineStartLF(Last.input.value, Last.input.selectionStart) > 0
    /\ Last.result.value = history[2].input.value

\* the invocation toggled the line comment with a non-collapsed selection
IsBlockLineToggle(h) ==
    /\ h.key = "Ctrl+/"
    /\ rule.lineComment # <<>>
    /\ h.input.selectionStart < h.input.selectionEnd

IsBlank(line) == LeadingLength(line) = Len(line)

\* the line starts, after its leading whitespace, with the comment token
IsCommented(line) ==
    slice(line, LeadingLength(line), LeadingLength(line) + Len(rule.lineComment))
        = rule.lineComment

\* the line without its token, and without the space behind the token when
\* insertSpace is true
Stripped(line) ==
    LET pos == LeadingLength(line)
        removed == Len(rule.lineComment)
                   + (IF rule.insertSpace /\ At(line, pos + Len(rule.lineComment)) = " "
                      THEN 1 ELSE 0)
    IN  slice(line, 0, pos) \o slice(line, pos + removed, Len(line))

\* the line with the token, and a space when insertSpace is true, behind its
\* leading whitespace
Commented(line) ==
    slice(line, 0, LeadingLength(line)) \o rule.lineComment
    \o (IF rule.insertSpace THEN <<" ">> ELSE <<>>)
    \o slice(line, LeadingLength(line), Len(line))

\* the lines (by number) from the first line of the selection to the line
\* that holds the selection end
ToggledLines(input) ==
    LET lines == split(input.value)
    IN  {k \in DOMAIN lines :
            /\ StartOfLine(lines, k) >= LineStartLF(input.value, input.selectionStart)
            /\ StartOfLine(lines, k) <= input.selectionEnd}

\* C21: the line-comment toggle with a non-collapsed selection operates on
\* every line from the first line of the selection to the line holding the
\* selection end: if each of them is blank or starts with the token, the
\* token (plus optional space) is stripped from every non-blank line;
\* otherwise the token (plus optional space) is added to every non-blank
\* line, also to those that already start with it; blank lines and all other
\* lines are unchanged
C21_BlockLineToggle ==
    (history # <<>> /\ IsBlockLineToggle(Last)) =>
        LET lines == split(Last.input.value)
            block == ToggledLines(Last.input)
            allCommented == \A k \in block : IsBlank(lines[k]) \/ IsCommented(lines[k])
        IN  Last.result.value =
                join([k \in DOMAIN lines |->
                         IF k \notin block \/ IsBlank(lines[k]) THEN lines[k]
                         ELSE IF allCommented THEN Stripped(lines[k])
                         ELSE Commented(lines[k])])

C21_Witness ==
    /\ history # <<>> /\ IsBlockLineToggle(Last)
    /\ LET lines == split(Last.input.value)
           block == ToggledLines(Last.input)
       IN  /\ \E k \in block : ~IsBlank(lines[k]) /\ IsCommented(lines[k])
           /\ \E k \in block : ~IsBlank(lines[k]) /\ ~IsCommented(lines[k])
    /\ Len(Last.result.value) >= Len(Last.input.value) + 2 * Len(rule.lineComment)

\* the offset a position of the text before has in the text after an edit at
\* offset point that changed the length by delta: unchanged before the edit
\* point, shifted by delta at or past it, and never before the edit point
Shifted(pos, point, delta) ==
    IF pos < point THEN pos ELSE Max(point, pos + delta)

\* C25: the line-comment toggle with a collapsed caret shifts the selection
\* offsets it reports by the inserted or removed length for positions at or
\* past the edit point, the offset of the first character of the line that is
\* not whitespace, and leaves them unchanged for positions before it, on the
\* comment and on the uncomment path
C25_CaretShift ==
    (history # <<>> /\ IsCaretLineToggle(Last)) =>
        LET point == ContentStart(Last.input)
            delta == Len(NewValue(Last)) - Len(Last.input.value)
        IN  Last.action.select =
                <<SelectAction(Shifted(Last.input.selectionStart, point, delta),
                               Shifted(Last.input.selectionEnd, point, delta))>>

\* the select of an invocation lies within the text its patch leaves
SelectWithinPatched(h) ==
    h.action.select # <<>> =>
        /\ 0 <= h.action.select[1].start
        /\ h.action.select[1].start <= h.action.select[1].end
        /\ h.action.select[1].end <= Len(NewValue(h))

\* C28: the select of the line-comment toggle satisfies
\* 0 <= start <= end <= length of the patched text, for a collapsed caret,
\* inside or right behind the token being removed too, and for a selection
C28_LineSelectWithinBounds ==
    (history # <<>> /\ Last.key = "Ctrl+/" /\ rule.lineComment # <<>>) =>
        SelectWithinPatched(Last)

\* the patch of an invocation lies within the text before
PatchWithinInput(h) ==
    h.action.patch # <<>> =>
        /\ 0 <= h.action.patch[1].start
        /\ h.action.patch[1].start <= h.action.patch[1].end
        /\ h.action.patch[1].end <= Len(h.input.value)

\* C29: the patch of the block-comment toggle lies within the text and its
\* select within the patched text, on the unwrap path with a single space or
\* nothing selected between the delimiters too
C29_BlockWithinBounds ==
    (history # <<>> /\ Last.key = "Ctrl+/" /\ rule.blockComment # <<>>) =>
        (PatchWithinInput(Last) /\ SelectWithinPatched(Last))

----
(* Properties of the closing-pair plugin *)

\* the pairs of the active language
ActivePairs == IF rules_has(options.language) THEN rules_get(options.language) ELSE <<>>

\* the invocation typed an open token at a collapsed caret whose next
\* character is absent or whitespace
IsOpenAtBoundary(h) ==
    /\ \E i \in DOMAIN ActivePairs : ActivePairs[i][1] = h.key
    /\ h.input.selectionStart = h.input.selectionEnd
    /\ At(h.input.value, h.input.selectionStart) \in {Undefined, " ", "\t", "\n"}

\* the close token of an open token of the active language
CloseOf(open) == (CHOOSE pair \in Range(ActivePairs) : pair[1] = open)[2]

\* C8: an open token typed at a collapsed caret p before whitespace or the
\* end of the text inserts open+close at p with the caret at p+1, and the
\* close token typed next leaves the buffer unchanged with the caret at p+2
C8_OpenThenClose ==
    /\ (history # <<>> /\ IsOpenAtBoundary(Last)) =>
           LET p == Last.input.selectionStart
           IN  /\ Last.result.value =
                      slice(Last.input.value, 0, p) \o <<Last.key, CloseOf(Last.key)>>
                      \o slice(Last.input.value, p, Len(Last.input.value))
               /\ Last.result.selectionStart = p + 1
               /\ Last.result.selectionEnd = p + 1
    /\ (Len(history) = 2 /\ IsOpenAtBoundary(history[2]) /\ Last.key = CloseOf(history[2].key)) =>
           /\ Last.result.value = history[2].result.value
           /\ Last.result.selectionStart = history[2].input.selectionStart + 2
           /\ Last.result.selectionEnd = history[2].input.selectionStart + 2

C8_Witness ==
    /\ Len(history) = 2 /\ IsOpenAtBoundary(history[2]) /\ Last.key = CloseOf(history[2].key)
    /\ Last.key # history[2].key
    /\ history[2].input.selectionStart > 0
    /\ At(history[2].input.value, history[2].input.selectionStart) = " "
    /\ ~Last.prevented
    /\ Last.result.value = history[2].result.value

\* the four cases in which the closing-pair handler acts
PairsHandlerActs(h) ==
    LET v == h.input.value
        s == h.input.selectionStart
        e == h.input.selectionEnd
        isOpen == \E i \in DOMAIN ActivePairs : ActivePairs[i][1] = h.key
        isClose == \E i \in DOMAIN ActivePairs : ActivePairs[i][2] = h.key
        betweenPair == s = e /\ s > 0 /\ slice(v, s - 1, s + 1) \in Range(ActivePairs)
    IN  \/ h.key = "Backspace" /\ betweenPair
        \/ isOpen /\ s # e
        \/ isOpen /\ s = e /\ (At(v, s) = Undefined \/ At(v, s) \in should_auto_close)
        \/ isClose /\ betweenPair

\* C9: every other key press is a no-op of the closing-pair handler: it
\* changes neither the text nor the selection
C9_OtherKeysNoOp ==
    (history # <<>> /\ Last.key \in PairsKeys /\ ~PairsHandlerActs(Last)) =>
        (Last.handled = Last.input /\ ~Last.prevented)

\* the invocation typed an open token of the active language at a collapsed
\* caret
IsOpenAtCaret(h) ==
    /\ \E i \in DOMAIN ActivePairs : ActivePairs[i][1] = h.key
    /\ h.input.selectionStart = h.input.selectionEnd

\* the handler inserted open+close at the caret, left the caret between
\* them and prevented the default insertion
AutoClosed(h) ==
    LET v == h.input.value
        p == h.input.selectionStart
    IN  /\ h.handled.value = slice(v, 0, p) \o <<h.key, CloseOf(h.key)>> \o slice(v, p, Len(v))
        /\ h.handled.selectionStart = p + 1
        /\ h.handled.selectionEnd = p + 1

\* C17: an open token typed with a collapsed caret inserts open+close and
\* places the caret between them if and only if the character after the
\* caret is absent or one of space, tab, newline, . , ; ) ] } > =; the
\* default insertion is then prevented, so the open token is inserted once
C17_AutoCloseAtBoundary ==
    (history # <<>> /\ IsOpenAtCaret(Last)) =>
        LET next == At(Last.input.value, Last.input.selectionStart)
            atBoundary == next \in {Undefined, " ", "\t", "\n", ".", ",", ";", ")", "]", "}", ">", "="}
        IN  /\ AutoClosed(Last) <=> atBoundary
            /\ atBoundary => (Last.prevented /\ Last.result = Last.handled)
            /\ ~atBoundary => Len(Last.result.value) <= Len(Last.input.value) + 1

C17_Witness ==
    /\ history # <<>> /\ IsOpenAtCaret(Last)
    /\ Last.input.selectionStart > 0
    /\ At(Last.input.value, Last.input.selectionStart) = ";"
    /\ AutoClosed(Last)
    /\ Last.prevented
    /\ Len(Last.result.value) = Len(Last.input.value) + 2

\* C18: an open token typed with a non-empty selection [s, e) replaces the
\* selection by open + selected text + close, prevents the default
\* insertion and leaves the selection at [s+1, e+1], which covers exactly
\* the text selected before; the text outside [s, e) is unchanged
C18_SurroundSelection ==
    (/\ history # <<>>
     /\ \E i \in DOMAIN ActivePairs : ActivePairs[i][1] = Last.key
     /\ Last.input.selectionStart < Last.input.selectionEnd) =>
        LET v == Last.input.value
            s == Last.input.selectionStart
            e == Last.input.selectionEnd
        IN  /\ Last.prevented
            /\ Last.result.value =
                   slice(v, 0, s) \o <<Last.key>> \o slice(v, s, e) \o <<CloseOf(Last.key)>>
                   \o slice(v, e, Len(v))
            /\ Last.result.selectionStart = s + 1
            /\ Last.result.selectionEnd = e + 1
            /\ slice(Last.result.value, Last.result.selectionStart, Last.result.selectionEnd)
                   = slice(v, s, e)

C18_Witness ==
    /\ history # <<>> /\ Last.key = "("
    /\ Last.input.selectionStart > 0
    /\ Last.input.selectionStart < Last.input.selectionEnd
    /\ Last.input.selectionEnd < Len(Last.input.value)
    /\ Last.prevented
    /\ At(Last.result.value, Last.input.selectionEnd + 1) = ")"

\* the caret of an invocation is collapsed between the two characters of a
\* pair literal of the active language
PairAroundCaret(h) ==
    /\ h.input.selectionStart = h.input.selectionEnd
    /\ h.input.selectionStart > 0
    /\ <<At(h.input.value, h.input.selectionStart - 1), At(h.input.value, h.input.selectionStart)>>
           \in Range(ActivePairs)

\* C19: Backspace with a collapsed caret at p expands the selection to
\* [p-1, p+1] exactly when the two characters around the caret form a pair
\* literal of the active language, so that the host's delete removes both;
\* in every other case the handler leaves text and selection unchanged
C19_BackspaceDeletesPair ==
    (history # <<>> /\ Last.key = "Backspace") =>
        LET v == Last.input.value
            p == Last.input.selectionStart
        IN  /\ ~Last.prevented
            /\ PairAroundCaret(Last) =>
                   /\ Last.handled = [value |-> v, selectionStart |-> p - 1, selectionEnd |-> p + 1]
                   /\ Last.result = [value |-> slice(v, 0, p - 1) \o slice(v, p + 1, Len(v)),
                                     selectionStart |-> p - 1, selectionEnd |-> p - 1]
            /\ ~PairAroundCaret(Last) => Last.handled = Last.input

C19_Witness ==
    /\ Len(history) = 2 /\ Last.key = "Backspace" /\ PairAroundCaret(Last)
    /\ history[2].key = "(" /\ history[2].prevented
    /\ Last.input.selectionStart > 1
    /\ Last.result.value = history[2].input.value

\* the handler selected the character behind a collapsed caret and left the
\* key to the host, which replaces the selected character by the key
SkippedOver(h) ==
    /\ h.input.selectionStart = h.input.selectionEnd
    /\ ~h.prevented
    /\ h.handled = [value |-> h.input.value,
                    selectionStart |-> h.input.selectionStart,
                    selectionEnd |-> h.input.selectionEnd + 1]

\* C27: the handler skips over the character behind a collapsed caret only
\* when the key is the close token of the pair around the caret, which is the
\* character behind the caret; another close token or an open token typed
\* inside an empty pair neither selects nor overwrites the closing character
C27_SkipOnlyOwnClose ==
    (history # <<>> /\ Last.key \in PairsKeys /\ SkippedOver(Last)) =>
        /\ Last.key = At(Last.input.value, Last.input.selectionStart)
        /\ PairAroundCaret(Last)

----
(* Properties of the autoload plugin *)

\* the options after the first n calls of updateOptions, applied in call order
RECURSIVE OptionsAfter(_)
OptionsAfter(n) ==
    IF n = 0 THEN [theme |-> "none", language |-> "text"]
    ELSE updateOptions(OptionsAfter(n - 1), calls[n].newOptions)

\* C30: with the autoload plugin installed, the option sets of several calls
\* of updateOptions that were not awaited are applied in call order, so that,
\* when all are applied, the theme and the language are those of the last
\* call that set them, also when an earlier call has to load and a later one
\* has not
C30_AppliedInCallOrder ==
    /\ \A i, j \in DOMAIN applied : i < j => applied[i] < applied[j]
    /\ Len(applied) = Len(calls) => editor_options = OptionsAfter(Len(calls))

====
